---- MODULE Spec2Model ----
(***************************************************************************)
(* Model of the D365 form layers of the framework: Attribute (field        *)
(* read/write), Control (control state) and SubGrid (related records),     *)
(* driven by one test (a single thread of awaited calls) against the form  *)
(* the page currently shows.                                               *)
(***************************************************************************)
EXTENDS Integers, Sequences, FiniteSets, TLC

(***************************************************************************)
(* Bounds of the model                                                     *)
(***************************************************************************)
\* longest chain of ancestor containers a control of the form may have
MaxDepth == 3
\* most entries of a setValues mapping
MaxBatch == 2
\* most rows loaded in the subgrid
MaxRows == 2

(***************************************************************************)
(* Program constants                                                       *)
(***************************************************************************)
\* defaults.settleTime
DefaultSettleTime == 500
\* the fallback of `safeSettings.settleTime || 500`
FallbackSettleTime == 500

(***************************************************************************)
(* Values that cross the automation boundary.  A value is a record         *)
(* [k, d]: k is the JavaScript kind, d a tuple of integers.                *)
(*   "date"    d = <<day, ms>>  days since 1970-01-01 and ms within the day *)
(*             (one JavaScript time value, split to keep integers small)   *)
(*   "invalid" an Invalid Date                                             *)
(*   "iso"     d = <<Y, M, D, h, mi, s, ms>>, the text YYYY-MM-DDThh:mm:ss.sssZ *)
(*   "str"     d = <<code>>, any other text                                *)
(*   "null"    null                                                        *)
(***************************************************************************)
DateV(day, ms) == [k |-> "date", d |-> <<day, ms>>]
InvalidDate == [k |-> "invalid", d |-> <<>>]
StrV(c) == [k |-> "str", d |-> <<c>>]
NullV == [k |-> "null", d |-> <<>>]

\* Date.prototype.toISOString: the UTC calendar fields of a time value
ToISOStringDropMs(v) ==
  LET z == v.d[1] + 719468
      era == z \div 146097
      doe == z % 146097
      yoe == (doe - (doe \div 1460) + (doe \div 36524) - (doe \div 146096)) \div 365
      doy == doe - (365 * yoe + (yoe \div 4) - (yoe \div 100))
      mp == (5 * doy + 2) \div 153
      D == doy - ((153 * mp + 2) \div 5) + 1
      M == IF mp < 10 THEN mp + 3 ELSE mp - 9
      Y == yoe + era * 400 + (IF M <= 2 THEN 1 ELSE 0)
      t == v.d[2]
  IN [k |-> "iso",
      d |-> <<Y, M, D, t \div 3600000, (t \div 60000) % 60, (t \div 1000) % 60, 0>>]

ToISOString(v) ==
  LET z == v.d[1] + 719468
      era == z \div 146097
      doe == z % 146097
      yoe == (doe - (doe \div 1460) + (doe \div 36524) - (doe \div 146096)) \div 365
      doy == doe - (365 * yoe + (yoe \div 4) - (yoe \div 100))
      mp == (5 * doy + 2) \div 153
      D == doy - ((153 * mp + 2) \div 5) + 1
      M == IF mp < 10 THEN mp + 3 ELSE mp - 9
      Y == yoe + era * 400 + (IF M <= 2 THEN 1 ELSE 0)
      t == v.d[2]
  IN [k |-> "iso",
      d |-> <<Y, M, D, t \div 3600000, (t \div 60000) % 60, (t \div 1000) % 60, t % 1000>>]

\* Date.parse of an ISO text: the time value of its UTC calendar fields
DateParse(s) ==
  LET y == s.d[1] - (IF s.d[2] <= 2 THEN 1 ELSE 0)
      era == y \div 400
      yoe == y - era * 400
      mp == IF s.d[2] > 2 THEN s.d[2] - 3 ELSE s.d[2] + 9
      doy == ((153 * mp + 2) \div 5) + s.d[3] - 1
      doe == yoe * 365 + (yoe \div 4) - (yoe \div 100) + doy
  IN DateV(era * 146097 + doe - 719468,
           s.d[4] * 3600000 + s.d[5] * 60000 + s.d[6] * 1000 + s.d[7])

\* new Date(val) for the values that reach the page
NewDate(val) ==
  CASE val.k = "iso" -> DateParse(val)
    [] val.k = "null" -> DateV(0, 0)
    [] val.k = "date" -> val
    [] OTHER -> InvalidDate

(***************************************************************************)
(* The form the page shows (window.Xrm.Page)                               *)
(***************************************************************************)
\* the attributes of the form, and a name the form does not have
FormFields == {"createdon", "telephone1"}
AbsentField == "fax"
FieldNames == FormFields \cup {AbsentField}

\* attribute.getAttributeType()
AttributeType(f) == IF f = "createdon" THEN "datetime" ELSE "string"

\* the controls of the form: two for createdon, none for telephone1, one subgrid
FieldControls == {"createdon", "header_createdon"}
GridControl == "Contacts"
FormControls == FieldControls \cup {GridControl}
AbsentControl == "Missing"
ControlNames == FieldControls \cup {AbsentControl}
GridNames == {GridControl, AbsentControl}

\* attribute.controls.get()
ControlsOf(f) == IF f = "createdon" THEN FieldControls ELSE {}

RequiredLevels == {"none", "required", "recommended"}

\* the chains of ancestor containers (nearest first), each visible or not
Chains == UNION {[1..n -> BOOLEAN] : n \in 0..MaxDepth}

\* the form as loaded: an attribute's value, required level and dirty flag
LoadedAttrs ==
  [f \in FormFields |->
     [value |-> IF f = "createdon" THEN DateV(19722, 3723004) ELSE StrV(0),
      requiredLevel |-> "none",
      isDirty |-> FALSE]]

\* a control as loaded: enabled and visible, inside the containers `chain`
LoadedControl(c, chain) ==
  [disabled |-> FALSE, visible |-> TRUE, parents |-> chain, label |-> "loaded"]

\* the rows of the subgrid: entity references with the ids as the host gives them
GridRows ==
  << [id |-> <<"{", "A", "1", "}">>, entityType |-> "contact"],
     [id |-> <<"b", "2">>, entityType |-> "contact"],
     [id |-> <<"{", "C", "3", "}">>, entityType |-> "contact"],
     [id |-> <<"D", "4">>, entityType |-> "contact"] >>

\* the record form the test opened first
ParentPage == [etn |-> "account", id |-> <<"p", "0">>]

VARIABLES
  attrs,     \* the attributes of the form: FormFields -> [value, requiredLevel, isDirty]
  controls,  \* the controls of the form: FormControls -> [disabled, visible, parents, label]
  rows,      \* the rows loaded in the subgrid
  total,     \* the subgrid's total record count
  url,       \* the record form the page is on
  pc,        \* where the test is: "idle" between calls, or inside a call
  call,      \* the arguments of the call in progress
  events,    \* what the call in progress did on the page, in order
  result,    \* the outcome of the last call that ended
  clock,     \* Date.now(), in milliseconds
  calls,     \* how many calls the test has made to the factories
  env,       \* process.env: the variables that are set, with their values
  store,     \* the records of the data store: [id, entityType, refs]
  createdEntities,  \* the list the test tracks its created records in
  tables,    \* the exported constant objects INDUSTRY_CODE and PREFERRED_CONTACT_METHOD
  tasks      \* the calls the test has issued without awaiting them, in order

vars == <<attrs, controls, rows, total, url, pc, call, events, result,
          clock, calls, env, store, createdEntities, tables, tasks>>
form == <<attrs, controls, rows, total, url>>
\* what lives in the test process and the data store, outside the page
harness == <<clock, calls, env, store, createdEntities, tables, tasks>>

\* outcomes of a call on the thing named `name`: a value, or an error thrown
Ok(op, name, v) == [op |-> op, name |-> name, kind |-> "ok", err |-> "", val |-> v]
Err(op, name, e) == [op |-> op, name |-> name, kind |-> "error", err |-> e, val |-> <<>>]
NoResult == [op |-> "none", name |-> "", kind |-> "none", err |-> "", val |-> <<>>]

(***************************************************************************)
(* Attribute.setValue and Attribute.setValues                              *)
(***************************************************************************)
\* the `settings` argument: absent, a bare number, or a SetValueSettings object
NoSettings == [t |-> "none", n |-> 0, hasSt |-> FALSE, st |-> 0, hasFv |-> FALSE, fv |-> FALSE]
NumSettings(n) == [NoSettings EXCEPT !.t = "num", !.n = n]
ObjSettings(hasSt, st, hasFv, fv) ==
  [t |-> "obj", n |-> 0, hasSt |-> hasSt, st |-> IF hasSt THEN st ELSE 0,
   hasFv |-> hasFv, fv |-> hasFv /\ fv]

\* SafeSettings that drops forceValue
SafeSettingsNoForce(settings) ==
  [settleTime |->
     CASE settings.t = "num" -> settings.n
       [] settings.t = "obj" /\ settings.hasSt -> settings.st
       [] OTHER -> DefaultSettleTime,
   forceValue |-> FALSE]

\* safeSettings: the defaults overridden by what the caller gave
SafeSettings(settings) ==
  [settleTime |->
     CASE settings.t = "num" -> settings.n
       [] settings.t = "obj" /\ settings.hasSt -> settings.st
       [] OTHER -> DefaultSettleTime,
   forceValue |-> settings.t = "obj" /\ settings.hasFv /\ settings.fv]

\* the duration handed to waitForTimeout: safeSettings.settleTime || 500
SettleWait(safe) ==
  IF safe.settleTime = 0 THEN FallbackSettleTime ELSE safe.settleTime

\* the `val` handed to the page: a Date goes as its ISO text (the dates a
\* caller passes are valid ones: toISOString of an Invalid Date throws)
BoundaryValue(value) == IF value.k = "date" THEN ToISOString(value) ELSE value

\* finalValue: what the page hands to attribute.setValue
FinalValue(f, val) == IF AttributeType(f) = "datetime" THEN NewDate(val) ELSE val

\* EditableControl without the grandparent test
EditableControlParentOnly(c) ==
  /\ ~c.disabled
  /\ c.visible
  /\ (Len(c.parents) = 0 \/ c.parents[1])

\* the test of one control inside controls.get().some(...)
EditableControl(c) ==
  /\ ~c.disabled
  /\ c.visible
  /\ (Len(c.parents) = 0 \/ c.parents[1])
  /\ (Len(c.parents) = 0 \/ Len(c.parents) < 2 \/ c.parents[2])

\* Editable with the check left out
EditableUnchecked(f, opts, ctrls) == TRUE

\* `editable`: forceValue, or some control of the attribute passes the test
Editable(f, opts, ctrls) ==
  opts.forceValue \/ \E c \in ControlsOf(f) : EditableControl(ctrls[c])

NoRef == [id |-> <<>>, entityType |-> ""]
NoCall == [op |-> "none", batch |-> <<>>, idx |-> 0, settings |-> NoSettings, ref |-> NoRef]

Event(e, i, x) == [e |-> e, i |-> i, x |-> x]

\* a call of several steps ends: the test is between calls again (`call` keeps
\* the arguments of the call that ended until the next call starts)
Finish(r) ==
  /\ pc' = "idle"
  /\ call' = call
  /\ result' = r
  /\ UNCHANGED harness

\* setValue(attributeName, value, settings) is called
SetValueCall(n, v, s) ==
  /\ pc = "idle"
  /\ pc' = "evaluate"
  /\ call' = [NoCall EXCEPT !.op = "setValue", !.batch = <<[name |-> n, value |-> v]>>,
                             !.idx = 1, !.settings = s]
  /\ events' = <<>>
  /\ result' = NoResult
  /\ UNCHANGED form
  /\ UNCHANGED harness

\* setValues(values, settings) is called: the loop starts at the first key
SetValuesCall(b, s) ==
  /\ pc = "idle"
  /\ events' = <<>>
  /\ IF b = <<>>
       THEN /\ pc' = "idle"
            /\ call' = [NoCall EXCEPT !.op = "setValues", !.settings = s]
            /\ result' = Ok("setValues", "", <<>>)
       ELSE /\ pc' = "evaluate"
            /\ call' = [NoCall EXCEPT !.op = "setValues", !.batch = b,
                                       !.idx = 1, !.settings = s]
            /\ result' = NoResult
  /\ UNCHANGED form
  /\ UNCHANGED harness

\* SetValueEvaluate inside a loop that swallows the error and goes on to the next key
SetValueEvaluateContinues ==
  /\ pc = "evaluate"
  /\ LET e == call.batch[call.idx]
         opts == SafeSettings(call.settings)
         val == BoundaryValue(e.value)
         failed == e.name \notin FormFields \/ ~Editable(e.name, opts, controls)
     IN IF failed /\ call.idx < Len(call.batch)
          THEN /\ call' = [call EXCEPT !.idx = call.idx + 1]
               /\ UNCHANGED <<pc, result, attrs, events>>
          ELSE IF failed
            THEN /\ Finish(Err(call.op, e.name, "uneditable"))
                 /\ UNCHANGED <<attrs, events>>
            ELSE /\ attrs' = [attrs EXCEPT ![e.name].value = FinalValue(e.name, val),
                                           ![e.name].isDirty = TRUE]
                 /\ events' = events \o <<Event("setValue", call.idx, 0),
                                          Event("fireOnChange", call.idx, 0)>>
                 /\ pc' = "settle"
                 /\ UNCHANGED <<call, result>>
  /\ UNCHANGED <<controls, rows, total, url>>
  /\ UNCHANGED harness

\* the page.evaluate of setValue, for the entry the call is at
SetValueEvaluate ==
  /\ pc = "evaluate"
  /\ LET e == call.batch[call.idx]
         opts == SafeSettings(call.settings)
         val == BoundaryValue(e.value)
     IN IF e.name \notin FormFields
          THEN /\ Finish(Err(call.op, e.name, "not found"))
               /\ UNCHANGED <<attrs, events>>
          ELSE IF ~Editable(e.name, opts, controls)
            THEN /\ Finish(Err(call.op, e.name, "uneditable"))
                 /\ UNCHANGED <<attrs, events>>
            ELSE /\ attrs' = [attrs EXCEPT ![e.name].value = FinalValue(e.name, val),
                                           ![e.name].isDirty = TRUE]
                 /\ events' = events \o <<Event("setValue", call.idx, 0),
                                          Event("fireOnChange", call.idx, 0)>>
                 /\ pc' = "settle"
                 /\ UNCHANGED <<call, result>>
  /\ UNCHANGED <<controls, rows, total, url>>
  /\ UNCHANGED harness

\* SetValueSettle without the wait
SetValueSettleSkipped ==
  /\ pc = "settle"
  /\ pc' = "return"
  /\ UNCHANGED <<form, call, result, events>>
  /\ UNCHANGED harness

\* page.waitForTimeout(safeSettings.settleTime || 500) elapses
SetValueSettle ==
  /\ pc = "settle"
  /\ events' = events \o <<Event("waitForTimeout", call.idx,
                                 SettleWait(SafeSettings(call.settings)))>>
  /\ pc' = "return"
  /\ UNCHANGED <<form, call, result>>
  /\ UNCHANGED harness

\* setValue returns: to the test, or to the loop of setValues for the next key
SetValueReturn ==
  /\ pc = "return"
  /\ events' = events \o <<Event("return", call.idx, 0)>>
  /\ IF call.idx < Len(call.batch)
       THEN /\ call' = [call EXCEPT !.idx = call.idx + 1]
            /\ pc' = "evaluate"
            /\ UNCHANGED result
       ELSE Finish(Ok(call.op, call.batch[call.idx].name, <<>>))
  /\ UNCHANGED form
  /\ UNCHANGED harness

(***************************************************************************)
(* The other operations of Attribute: one page.evaluate each               *)
(***************************************************************************)
\* a call that is one round trip to the page and ends at once
Atomic(r) ==
  /\ pc = "idle"
  /\ events' = <<>>
  /\ pc' = "idle"
  /\ call' = NoCall
  /\ result' = r
  /\ UNCHANGED harness

\* attribute.getFormat()
AttributeFormat(f) == IF f = "createdon" THEN "datetime" ELSE "phone"

\* what getValue returns for an attribute of type `type` holding `raw`
GetValueResult(n, type, raw) ==
  LET isDate == type = "datetime"
      isDateObject == raw.k \in {"date", "invalid"}
  IN IF isDate /\ isDateObject /\ raw.k = "invalid"
       THEN Err("getValue", n, "RangeError")
       ELSE LET value == IF isDate /\ isDateObject THEN ToISOString(raw) ELSE raw
            IN IF type = "datetime" /\ value.k \in {"iso", "str"}
                 THEN Ok("getValue", n, NewDate(value))
                 ELSE Ok("getValue", n, value)

GetValue(n) ==
  /\ Atomic(IF n \notin FormFields
              THEN Err("getValue", n, "not found")
              ELSE GetValueResult(n, AttributeType(n), attrs[n].value))
  /\ UNCHANGED form

\* GetRequiredLevel that answers undefined for a name the form lacks
GetRequiredLevelUndefined(n) ==
  /\ Atomic(IF n \notin FormFields
              THEN Ok("getRequiredLevel", n, "undefined")
              ELSE Ok("getRequiredLevel", n, attrs[n].requiredLevel))
  /\ UNCHANGED form

GetRequiredLevel(n) ==
  /\ Atomic(IF n \notin FormFields
              THEN Err("getRequiredLevel", n, "not found")
              ELSE Ok("getRequiredLevel", n, attrs[n].requiredLevel))
  /\ UNCHANGED form

GetAttributeType(n) ==
  /\ Atomic(IF n \notin FormFields
              THEN Err("getAttributeType", n, "not found")
              ELSE Ok("getAttributeType", n, AttributeType(n)))
  /\ UNCHANGED form

GetFormattedValue(n) ==
  /\ Atomic(IF n \notin FormFields
              THEN Err("getFormattedValue", n, "not found")
              ELSE Ok("getFormattedValue", n, AttributeFormat(n)))
  /\ UNCHANGED form

IsDirty(n) ==
  /\ Atomic(IF n \notin FormFields
              THEN Err("isDirty", n, "not found")
              ELSE Ok("isDirty", n, attrs[n].isDirty))
  /\ UNCHANGED form

SetRequiredLevel(n, level) ==
  /\ IF n \notin FormFields
       THEN /\ Atomic(Err("setRequiredLevel", n, "not found"))
            /\ UNCHANGED attrs
       ELSE /\ Atomic(Ok("setRequiredLevel", n, <<>>))
            /\ attrs' = [attrs EXCEPT ![n].requiredLevel = level]
  /\ UNCHANGED <<controls, rows, total, url>>

(***************************************************************************)
(* Control                                                                 *)
(***************************************************************************)
\* ControlIsVisible that looks at the control alone
ControlIsVisibleOwnOnly(c) == c.visible

\* isVisible of Control.get: the control, its parent and its grandparent
ControlIsVisible(c) ==
  /\ c.visible
  /\ (Len(c.parents) = 0 \/ c.parents[1])
  /\ (Len(c.parents) = 0 \/ Len(c.parents) < 2 \/ c.parents[2])

\* control.getOptions() of the controls of the form
ControlOptions(n) == <<>>

\* what Control.get answers for the control named n
ControlGetResult(n) ==
  IF n \notin FormControls
    THEN Err("Control.get", n, "not found")
    ELSE Ok("Control.get", n,
            [isVisible |-> ControlIsVisible(controls[n]),
             isDisabled |-> controls[n].disabled])

ControlGet(n) ==
  /\ Atomic(ControlGetResult(n))
  /\ UNCHANGED form

ControlGetOptions(n) ==
  /\ Atomic(IF n \notin FormControls
              THEN Err("Control.getOptions", n, "not found")
              ELSE Ok("Control.getOptions", n, ControlOptions(n)))
  /\ UNCHANGED form

ControlSetVisible(n, visible) ==
  /\ IF n \notin FormControls
       THEN /\ Atomic(Err("Control.setVisible", n, "not found"))
            /\ UNCHANGED controls
       ELSE /\ Atomic(Ok("Control.setVisible", n, <<>>))
            /\ controls' = [controls EXCEPT ![n].visible = visible]
  /\ UNCHANGED <<attrs, rows, total, url>>

ControlSetDisabled(n, disabled) ==
  /\ IF n \notin FormControls
       THEN /\ Atomic(Err("Control.setDisabled", n, "not found"))
            /\ UNCHANGED controls
       ELSE /\ Atomic(Ok("Control.setDisabled", n, <<>>))
            /\ controls' = [controls EXCEPT ![n].disabled = disabled]
  /\ UNCHANGED <<attrs, rows, total, url>>

ControlGetLabel(n) ==
  /\ Atomic(IF n \notin FormControls
              THEN Err("Control.getLabel", n, "not found")
              ELSE Ok("Control.getLabel", n, controls[n].label))
  /\ UNCHANGED form

ControlSetLabel(n, label) ==
  /\ IF n \notin FormControls
       THEN /\ Atomic(Err("Control.setLabel", n, "not found"))
            /\ UNCHANGED controls
       ELSE /\ Atomic(Ok("Control.setLabel", n, <<>>))
            /\ controls' = [controls EXCEPT ![n].label = label]
  /\ UNCHANGED <<attrs, rows, total, url>>

(***************************************************************************)
(* SubGrid                                                                 *)
(***************************************************************************)
\* ToLowerCase that leaves every letter as it is
ToLowerCaseKeepsCase(ch) == ch

\* String.prototype.toLowerCase on one character of an id
ToLowerCase(ch) ==
  CASE ch = "A" -> "a" [] ch = "B" -> "b" [] ch = "C" -> "c" [] ch = "D" -> "d"
    [] OTHER -> ch

\* rawId.replace(/[{}]/g, '').toLowerCase()
RECURSIVE NormalizeId(_)
NormalizeId(rawId) ==
  IF rawId = <<>> THEN <<>>
  ELSE IF Head(rawId) \in {"{", "}"} THEN NormalizeId(Tail(rawId))
  ELSE <<ToLowerCase(Head(rawId))>> \o NormalizeId(Tail(rawId))

\* control.getEntityName() of the subgrid
GridEntityName == "contact"

\* what the callback of getRecordCount returns on the form as it is
GetRecordCountResult(n) ==
  IF n \notin FormControls
    THEN Ok("SubGrid.getRecordCount", n, "undefined")
    ELSE Ok("SubGrid.getRecordCount", n, total)

SubGridGetRecordCount(n) ==
  /\ Atomic(GetRecordCountResult(n))
  /\ UNCHANGED form

SubGridGetVisibleRecordCount(n) ==
  /\ Atomic(IF n \notin FormControls
              THEN Ok("SubGrid.getVisibleRecordCount", n, "undefined")
              ELSE Ok("SubGrid.getVisibleRecordCount", n, Len(rows)))
  /\ UNCHANGED form

SubGridGetEntityName(n) ==
  /\ Atomic(IF n \notin FormControls
              THEN Ok("SubGrid.getEntityName", n, "undefined")
              ELSE Ok("SubGrid.getEntityName", n, GridEntityName))
  /\ UNCHANGED form

\* SubGridRefresh that does nothing for a control the form lacks
SubGridRefreshSilent(n) ==
  /\ Atomic(Ok("SubGrid.refresh", n, <<>>))
  /\ UNCHANGED form

SubGridRefresh(n) ==
  /\ Atomic(IF n \notin FormControls
              THEN Err("SubGrid.refresh", n, "not found")
              ELSE Ok("SubGrid.refresh", n, <<>>))
  /\ UNCHANGED form

\* what the callback of getRecordIds returns on the form as it is
GetRecordIdsResult(n) ==
  IF n \notin FormControls
    THEN Ok("SubGrid.getRecordIds", n, <<>>)
    ELSE Ok("SubGrid.getRecordIds", n,
            [i \in 1..Len(rows) |-> NormalizeId(rows[i].id)])

SubGridGetRecordIds(n) ==
  /\ Atomic(GetRecordIdsResult(n))
  /\ UNCHANGED form

SubGridIsVisible(n) ==
  /\ Atomic(IF n \notin FormControls
              THEN Ok("SubGrid.isVisible", n, FALSE)
              ELSE Ok("SubGrid.isVisible", n, controls[n].visible))
  /\ UNCHANGED form

\* SubGridOpenNthRecord with the range test off by one
SubGridOpenNthRecordOffByOne(n, position) ==
  /\ pc = "idle"
  /\ events' = <<>>
  /\ call' = [NoCall EXCEPT !.op = "SubGrid.openNthRecord",
                            !.batch = <<[name |-> n, value |-> NullV]>>,
                            !.idx = position,
                            !.ref = IF n \in FormControls /\ position >= 0 /\ position < Len(rows)
                                      THEN [id |-> rows[position + 1].id,
                                            entityType |-> rows[position + 1].entityType]
                                      ELSE NoRef]
  /\ IF n \notin FormControls
       THEN pc' = "idle" /\ result' = Err("SubGrid.openNthRecord", n, "not found")
       ELSE IF position > Len(rows)
         THEN pc' = "idle" /\ result' = Err("SubGrid.openNthRecord", n, "out of range")
         ELSE IF position < 0 \/ position = Len(rows)
           THEN pc' = "idle" /\ result' = Err("SubGrid.openNthRecord", n, "TypeError")
           ELSE pc' = "goto" /\ result' = NoResult
  /\ UNCHANGED form
  /\ UNCHANGED harness

\* openNthRecord is called: its page.evaluate finds the control, tests the
\* range and reads the reference of the row at `position` (rows.get of a
\* negative position yields no row, and getData() on it throws a TypeError)
SubGridOpenNthRecord(n, position) ==
  /\ pc = "idle"
  /\ events' = <<>>
  /\ call' = [NoCall EXCEPT !.op = "SubGrid.openNthRecord",
                            !.batch = <<[name |-> n, value |-> NullV]>>,
                            !.idx = position,
                            !.ref = IF n \in FormControls /\ position >= 0 /\ position < Len(rows)
                                      THEN [id |-> rows[position + 1].id,
                                            entityType |-> rows[position + 1].entityType]
                                      ELSE NoRef]
  /\ IF n \notin FormControls
       THEN pc' = "idle" /\ result' = Err("SubGrid.openNthRecord", n, "not found")
       ELSE IF position >= Len(rows)
         THEN pc' = "idle" /\ result' = Err("SubGrid.openNthRecord", n, "out of range")
         ELSE IF position < 0
           THEN pc' = "idle" /\ result' = Err("SubGrid.openNthRecord", n, "TypeError")
           ELSE pc' = "goto" /\ result' = NoResult
  /\ UNCHANGED form
  /\ UNCHANGED harness

\* SubGridOpenNthGoto that always opens the first record of the grid
SubGridOpenNthGotoFirstRow ==
  /\ pc = "goto"
  /\ url' = [etn |-> rows[1].entityType, id |-> rows[1].id]
  /\ attrs' = LoadedAttrs
  /\ controls' = [c \in FormControls |-> LoadedControl(c, controls[c].parents)]
  /\ rows' = <<>>
  /\ total' = 0
  /\ pc' = "ready"
  /\ UNCHANGED <<call, events, result>>
  /\ UNCHANGED harness

\* page.goto(entityFormUrl): the page loads the record form of the reference
SubGridOpenNthGoto ==
  /\ pc = "goto"
  /\ url' = [etn |-> call.ref.entityType, id |-> call.ref.id]
  /\ attrs' = LoadedAttrs
  /\ controls' = [c \in FormControls |-> LoadedControl(c, controls[c].parents)]
  /\ rows' = <<>>
  /\ total' = 0
  /\ pc' = "ready"
  /\ UNCHANGED <<call, events, result>>
  /\ UNCHANGED harness

\* waitForXrmReady on the new page, then the reference is returned
SubGridOpenNthReturn ==
  /\ pc = "ready"
  /\ Finish(Ok("SubGrid.openNthRecord", call.batch[1].name, call.ref))
  /\ UNCHANGED <<form, events>>

(***************************************************************************)
(* The test process and the data store                                     *)
(***************************************************************************)
\* the variables test-config.ts reads
EnvVars == {"MDA_URL", "O365_USERNAME", "O365_PASSWORD"}
\* the value a variable of the .env file is set to
EnvValue(v) ==
  CASE v = "O365_USERNAME" -> "test-user@yourorg.com"
    [] v = "O365_PASSWORD" -> "your-password"
    [] OTHER -> "https://yourorg.crm.dynamics.com/main.aspx"
\* a .env file that sets every variable test-config.ts reads
FullEnv == [v \in EnvVars |-> EnvValue(v)]

\* export const INDUSTRY_CODE = { ... } as const
INDUSTRY_CODE ==
  [ACCOUNTING |-> 1, AGRICULTURE_FORESTRY |-> 2, BROADCASTING |-> 3, BROKERS |-> 4,
   BUILDING_SUPPLY_RETAIL |-> 5, BUSINESS_SERVICES |-> 6, CONSULTING |-> 7,
   CONSUMER_SERVICES |-> 8, DESIGN |-> 9, DISTRIBUTORS_IMPORTERS |-> 10,
   FINANCIAL_SERVICES |-> 11, FOOD_BEVERAGE |-> 12, HEALTHCARE |-> 13,
   HOSPITALITY |-> 14, INSURANCE |-> 15, LEGAL_SERVICES |-> 16, MANUFACTURING |-> 17,
   MEDIA_MARKETING |-> 18, NON_PROFIT |-> 19, RETAIL |-> 20, SOFTWARE |-> 21,
   TELECOMMUNICATIONS |-> 22, TRANSPORTATION |-> 23, UTILITIES |-> 24, WHOLESALE |-> 25]

\* export const PREFERRED_CONTACT_METHOD = { ... } as const
PREFERRED_CONTACT_METHOD == [ANY |-> 1, EMAIL |-> 2, PHONE |-> 3, FAX |-> 4, MAIL |-> 5]

\* the two objects as the modules export them when they load
LoadedTables ==
  [INDUSTRY_CODE |-> INDUSTRY_CODE, PREFERRED_CONTACT_METHOD |-> PREFERRED_CONTACT_METHOD]

\* the clock at the start, no factory called, nothing created or tracked, the
\* tables as exported, no call pending
InitHarness ==
  /\ clock = 0
  /\ calls = 0
  /\ env = FullEnv
  /\ store = {}
  /\ createdEntities = <<>>
  /\ tables = LoadedTables
  /\ tasks = <<>>

(***************************************************************************)
(* The test: the form it starts on and the calls it makes                  *)
(***************************************************************************)
\* the test starts between calls on the parent form, whose createdon control
\* sits inside `chain` and whose subgrid has loaded n of `count` records
InitForm(chain, n, count) ==
  /\ attrs = LoadedAttrs
  /\ controls = [c \in FormControls |->
                   IF c = "createdon" THEN LoadedControl(c, chain)
                   ELSE LoadedControl(c, <<TRUE, TRUE>>)]
  /\ rows = SubSeq(GridRows, 1, n)
  /\ total = count
  /\ url = ParentPage
  /\ pc = "idle"
  /\ call = NoCall
  /\ events = <<>>
  /\ result = NoResult
  /\ InitHarness

\* a date the test writes: 2000-02-29T12:00:00.123Z
SomeDate == DateV(11016, 43200123)

(***************************************************************************)
(* SpecEdit: writes against every state of the controls of a field         *)
(***************************************************************************)
EditValues == {StrV(1), SomeDate}
EditSettings ==
  {NoSettings, NumSettings(250), ObjSettings(FALSE, 0, TRUE, TRUE),
   ObjSettings(TRUE, 250, TRUE, FALSE)}

InitEdit == \E chain \in Chains : InitForm(chain, MaxRows, MaxRows)

NextEdit ==
  \/ \E n \in FieldNames, v \in EditValues, s \in EditSettings : SetValueCall(n, v, s)
  \/ SetValueEvaluate
  \/ SetValueSettle
  \/ SetValueReturn
  \/ \E n \in ControlNames : ControlGet(n)
  \/ \E n \in {"createdon", AbsentControl}, b \in BOOLEAN : ControlSetVisible(n, b)
  \/ \E n \in ControlNames, b \in BOOLEAN : ControlSetDisabled(n, b)

SpecEdit == InitEdit /\ [][NextEdit]_vars

(***************************************************************************)
(* Claims about the editability check (SpecEdit)                           *)
(***************************************************************************)
\* the entry the call in progress is at
Entry == call.batch[call.idx]
\* the caller asked for forceValue
Forced == call.settings.t = "obj" /\ call.settings.hasFv /\ call.settings.fv
\* a control is enabled, visible, and its nearest `depth` containers are visible
Usable(c, depth) ==
  /\ ~c.disabled
  /\ c.visible
  /\ \A i \in 1..Len(c.parents) : i <= depth => c.parents[i]
\* some control of field f is usable
HasUsable(f, depth) == \E c \in ControlsOf(f) : Usable(controls[c], depth)
\* the evaluate step wrote the entry's value and fired the notification
Wrote ==
  /\ pc' = "settle"
  /\ attrs' = [attrs EXCEPT ![Entry.name].value =
                              FinalValue(Entry.name, BoundaryValue(Entry.value)),
                            ![Entry.name].isDirty = TRUE]
  /\ events' = events \o <<Event("setValue", call.idx, 0),
                           Event("fireOnChange", call.idx, 0)>>

\* C1: setValue without forceValue on a field none of whose controls is enabled,
\* visible and inside visible parent and grandparent containers ends with the
\* "uneditable" error, the attributes are what they were, and neither the host
\* setValue nor fireOnChange was invoked.
C1_UneditableFailsUnchanged ==
  [][(/\ pc = "evaluate"
      /\ ~Forced
      /\ Entry.name \in FormFields
      /\ ~HasUsable(Entry.name, 2))
     => (/\ pc' = "idle"
         /\ result'.op = call.op /\ result'.name = Entry.name
         /\ result'.kind = "error" /\ result'.err = "uneditable"
         /\ attrs' = attrs
         /\ events' = events)]_vars

C1_Witness ==
  /\ pc = "idle"
  /\ result.op = "setValue" /\ result.name = "createdon"
  /\ result.kind = "error" /\ result.err = "uneditable"
  /\ events = <<>>
  /\ attrs["createdon"].value = LoadedAttrs["createdon"].value

\* C2 (as amended): without forceValue, setValue writes exactly when some control
\* of the field is enabled, itself visible, and has its parent and its
\* grandparent container (where present) visible; ancestors beyond the
\* grandparent are not consulted.
C2_WritesIffParentAndGrandparentVisible ==
  [][(pc = "evaluate" /\ ~Forced /\ Entry.name \in FormFields)
     => (pc' = "settle" <=> HasUsable(Entry.name, 2))]_vars

C2_Witness ==
  /\ pc = "idle"
  /\ result.op = "setValue" /\ result.name = "createdon"
  /\ result.kind = "error" /\ result.err = "uneditable"
  /\ ~controls["createdon"].disabled
  /\ controls["createdon"].visible
  /\ Len(controls["createdon"].parents) >= 2
  /\ controls["createdon"].parents[1]
  /\ ~controls["createdon"].parents[2]

\* C2 (as claimed): without forceValue, setValue writes only if some control is
\* enabled, visible and has ALL its ancestor containers visible, at any depth.
C2_WritesOnlyIfAllAncestorsVisible ==
  [][(pc = "evaluate" /\ ~Forced /\ Entry.name \in FormFields /\ pc' = "settle")
     => HasUsable(Entry.name, MaxDepth)]_vars

\* C3: with forceValue = true on an existing field the value is written and the
\* notification fired whatever the controls are; without it in the settings
\* (absent settings, a bare number, an object without forceValue) the write
\* happens only if some control passes the check.
C3_ForceBypassesCheck ==
  [][(pc = "evaluate" /\ Entry.name \in FormFields)
     => /\ Forced => Wrote
        /\ (~Forced /\ pc' = "settle") => HasUsable(Entry.name, 2)
        /\ (call.settings.t \in {"none", "num"} /\ ~HasUsable(Entry.name, 2))
             => result'.err = "uneditable"]_vars

C3_Witness ==
  /\ pc = "settle"
  /\ Forced
  /\ Entry.name = "telephone1"
  /\ ControlsOf(Entry.name) = {}
  /\ attrs["telephone1"].value = StrV(1)
  /\ Len(events) = 2

(***************************************************************************)
(* SpecDate: dates written to and read from the datetime field             *)
(***************************************************************************)
\* days since 1970-01-01: around the epoch, leap days, century years, year 0,
\* the last day a JavaScript Date can hold
DaySamples ==
  {-719163, -25509, -25508, -1, 0, 789, 10956, 11016, 11017, 19782, 47540, 47541,
   99999999}
\* milliseconds within the day
MsSamples == {0, 1, 999, 1000, 59999, 3599999, 43200123, 86399999}
DateValues == {DateV(d, m) : d \in DaySamples, m \in MsSamples}

InitDate == InitForm(<<TRUE, TRUE>>, MaxRows, MaxRows)

NextDate ==
  \/ \E v \in DateValues \cup {NullV}, s \in {NoSettings, ObjSettings(FALSE, 0, TRUE, TRUE)} :
       SetValueCall("createdon", v, s)
  \/ SetValueEvaluate
  \/ SetValueSettle
  \/ SetValueReturn
  \/ \E n \in FieldNames : GetValue(n)

SpecDate == InitDate /\ [][NextDate]_vars

\* C4: when setValue(field, v) with a date v has succeeded on a datetime field,
\* the getValue(field) that follows returns a date equal to v, day and
\* millisecond.
C4_DateRoundTrip ==
  [][(/\ pc = "idle"
      /\ call.op = "setValue"
      /\ result.op = "setValue" /\ result.kind = "ok"
      /\ AttributeType(Entry.name) = "datetime"
      /\ Entry.value.k = "date"
      /\ result'.op = "getValue" /\ result'.name = Entry.name)
     => (result'.kind = "ok" /\ result'.val = Entry.value)]_vars

C4_Witness ==
  /\ pc = "idle"
  /\ result.op = "getValue" /\ result.name = "createdon" /\ result.kind = "ok"
  /\ result.val = DateV(-25508, 86399999)
  /\ attrs["createdon"].isDirty

(***************************************************************************)
(* SpecSettle: single and batched writes under every shape of `settings`   *)
(***************************************************************************)
SettleTimes == {0, 1, 250}
SettleSettings ==
  {NoSettings}
    \cup {NumSettings(n) : n \in SettleTimes}
    \cup {ObjSettings(TRUE, t, FALSE, FALSE) : t \in SettleTimes}
    \cup {ObjSettings(FALSE, 0, FALSE, FALSE), ObjSettings(FALSE, 0, TRUE, TRUE),
          ObjSettings(TRUE, 250, TRUE, TRUE)}

\* the mappings handed to setValues, as the sequence for...in visits: up to
\* MaxBatch keys, no key twice
Entries == [name : FieldNames, value : {SomeDate}]
Batches ==
  {b \in UNION {[1..k -> Entries] : k \in 0..MaxBatch} :
     \A i, j \in DOMAIN b : i # j => b[i].name # b[j].name}

InitSettle == InitForm(<<TRUE, TRUE>>, MaxRows, MaxRows)

NextSettle ==
  \/ \E n \in FieldNames, v \in {StrV(1), SomeDate}, s \in SettleSettings : SetValueCall(n, v, s)
  \/ \E b \in Batches, s \in SettleSettings : SetValuesCall(b, s)
  \/ SetValueEvaluate
  \/ SetValueSettle
  \/ SetValueReturn
  \/ \E n \in FieldControls, b \in BOOLEAN : ControlSetDisabled(n, b)

SpecSettle == InitSettle /\ [][NextSettle]_vars

\* the call in progress, or the one that just ended, is a setValue or setValues
Writing == call.op \in {"setValue", "setValues"}
\* what the call did for its i-th entry, in order
EventsOf(i) ==
  LET sub == SelectSeq(events, LAMBDA ev : ev.i = i)
  IN [j \in 1..Len(sub) |-> sub[j].e]
WriteOrder == <<"setValue", "fireOnChange", "waitForTimeout", "return">>
IsPrefix(a, b) == Len(a) <= Len(b) /\ \A j \in 1..Len(a) : a[j] = b[j]

\* C5: within a setValue call the host setValue comes first, then fireOnChange,
\* then the settle wait, then the return; a call that has returned has done each
\* exactly once, and the notification never precedes the write.
C5_WriteFireSettleReturn ==
  Writing =>
    \A i \in 1..Len(call.batch) :
      /\ IsPrefix(EventsOf(i), WriteOrder)
      /\ (i < call.idx \/ (pc = "idle" /\ result.kind = "ok")) => EventsOf(i) = WriteOrder
      /\ (i = call.idx /\ pc = "return") => EventsOf(i) = SubSeq(WriteOrder, 1, 3)
      /\ (i = call.idx /\ pc = "settle") => EventsOf(i) = SubSeq(WriteOrder, 1, 2)

C5_Witness ==
  /\ pc = "idle"
  /\ call.op = "setValue"
  /\ result.kind = "ok"
  /\ Len(events) = 4
  /\ events[2].e = "fireOnChange"

\* the settle duration the caller configured
ConfiguredWait(settings) ==
  CASE settings.t = "num" -> settings.n
    [] settings.t = "obj" /\ settings.hasSt -> settings.st
    [] OTHER -> 500

\* C6: the settle wait lasts exactly the configured duration: n for the bare
\* number n, s for settleTime = s, 500 when none is given, for every n, s >= 0.
C6_WaitIsConfiguredDuration ==
  Writing =>
    \A j \in 1..Len(events) :
      events[j].e = "waitForTimeout" => events[j].x = ConfiguredWait(call.settings)

\* C8: setValues writes its entries one at a time in iteration order, each only
\* after the one before has settled and returned; when the write of entry k
\* fails, the call ends with that entry's error, entries before k stay written,
\* and entry k and those after it have done nothing on the page.
C8_SequentialNotAtomic ==
  /\ [](call.op = "setValues" =>
         /\ \A j \in 1..Len(events) : \A h \in 1..j : events[h].i <= events[j].i
         /\ \A i \in 1..Len(call.batch) :
              /\ i < call.idx =>
                   /\ EventsOf(i) = WriteOrder
                   /\ attrs[call.batch[i].name].value =
                        FinalValue(call.batch[i].name, BoundaryValue(call.batch[i].value))
              /\ i > call.idx => EventsOf(i) = <<>>
              /\ (i = call.idx /\ pc = "idle" /\ result.kind = "error") =>
                   /\ EventsOf(i) = <<>>
                   /\ result.name = call.batch[i].name
         /\ (pc = "idle" /\ result.kind = "ok" /\ call.batch # <<>>) => call.idx = Len(call.batch))
  /\ [][(call.op = "setValues" /\ pc = "evaluate" /\ pc' = "idle")
        => (attrs' = attrs /\ result'.kind = "error" /\ call' = call)]_vars

C8_Witness ==
  /\ pc = "idle"
  /\ call.op = "setValues"
  /\ result.kind = "error"
  /\ call.idx = 2
  /\ Len(events) = 4
  /\ attrs[call.batch[1].name].value # LoadedAttrs[call.batch[1].name].value

(***************************************************************************)
(* Spec: every operation of the three layers, with names the form has and  *)
(* names it lacks                                                          *)
(***************************************************************************)
\* the subgrid has loaded n of its `count` records
Init == \E n \in 0..MaxRows : \E count \in n..MaxRows : InitForm(<<TRUE, TRUE>>, n, count)

SomeSettings == {NoSettings, ObjSettings(FALSE, 0, TRUE, TRUE)}
SomeBatches == {b \in Batches : Len(b) >= 1 /\ b[1].name # "telephone1"}

Next ==
  \/ \E n \in FieldNames, s \in SomeSettings : SetValueCall(n, SomeDate, s)
  \/ \E b \in SomeBatches, s \in SomeSettings : SetValuesCall(b, s)
  \/ SetValueEvaluate
  \/ SetValueSettle
  \/ SetValueReturn
  \/ \E n \in FieldNames : GetValue(n)
  \/ \E n \in FieldNames : GetRequiredLevel(n)
  \/ \E n \in FieldNames : GetAttributeType(n)
  \/ \E n \in FieldNames : GetFormattedValue(n)
  \/ \E n \in FieldNames : IsDirty(n)
  \/ \E n \in {"createdon", AbsentField}, level \in RequiredLevels : SetRequiredLevel(n, level)
  \/ \E n \in ControlNames : ControlGet(n)
  \/ \E n \in ControlNames : ControlGetOptions(n)
  \/ \E n \in {"createdon", AbsentControl}, b \in BOOLEAN : ControlSetVisible(n, b)
  \/ \E n \in {"createdon", AbsentControl}, b \in BOOLEAN : ControlSetDisabled(n, b)
  \/ \E n \in ControlNames : ControlGetLabel(n)
  \/ \E n \in {"header_createdon", AbsentControl} : ControlSetLabel(n, "relabelled")
  \/ \E n \in GridNames : SubGridGetRecordCount(n)
  \/ \E n \in GridNames : SubGridGetVisibleRecordCount(n)
  \/ \E n \in GridNames : SubGridGetEntityName(n)
  \/ \E n \in GridNames : SubGridRefresh(n)
  \/ \E n \in GridNames : SubGridGetRecordIds(n)
  \/ \E n \in GridNames : SubGridIsVisible(n)
  \/ \E n \in GridNames, i \in -1..(MaxRows + 1) : SubGridOpenNthRecord(n, i)
  \/ SubGridOpenNthGoto
  \/ SubGridOpenNthReturn

Spec == Init /\ [][Next]_vars

\* the operations of Attribute that are one round trip
AttributeQueries ==
  {"getValue", "getAttributeType", "isDirty", "getRequiredLevel", "setRequiredLevel",
   "getFormattedValue"}

\* C7: getValue, setValue, getAttributeType, isDirty, getRequiredLevel,
\* setRequiredLevel and getFormattedValue, called with a name that is no field of
\* the form, end with the "not found" error and leave the form as it was; for
\* setValue also with forceValue, and never with the "uneditable" error.
C7_AbsentFieldNotFound ==
  [][((pc = "idle" /\ pc' = "idle" /\ result'.op \in AttributeQueries
         /\ result'.name \notin FormFields)
      \/ (pc = "evaluate" /\ call.op = "setValue" /\ Entry.name \notin FormFields))
     => (/\ pc' = "idle"
         /\ result'.kind = "error"
         /\ result'.err = "not found"
         /\ form' = form
         /\ \A j \in 1..Len(events') : events'[j].e \notin {"setValue", "fireOnChange"})]_vars

C7_Witness ==
  /\ pc = "idle"
  /\ call.op = "setValue"
  /\ Forced
  /\ result.op = "setValue" /\ result.name = AbsentField
  /\ result.kind = "error" /\ result.err = "not found"
  /\ events = <<>>

\* the operations of SubGrid that answer for a control the form lacks
SubGridLenient ==
  {"SubGrid.getRecordCount", "SubGrid.getVisibleRecordCount", "SubGrid.getEntityName",
   "SubGrid.getRecordIds", "SubGrid.isVisible"}
\* a step that ends a call whose outcome is about a name the form lacks
EndsOnAbsent == pc' = "idle" /\ result'.name \in {AbsentField, AbsentControl}

\* C9 (as amended): every operation of Attribute and Control, and
\* SubGrid.openNthRecord and SubGrid.refresh, raises "not found" when it meets a
\* field or control the form lacks; SubGrid.getRecordCount,
\* getVisibleRecordCount and getEntityName return undefined, getRecordIds
\* returns the empty list and isVisible returns false instead of raising.
C9_NotFoundExceptLenientSubGrid ==
  [][EndsOnAbsent =>
       IF result'.op \in SubGridLenient
         THEN /\ result'.kind = "ok"
              /\ result'.op = "SubGrid.getRecordIds" => result'.val = <<>>
              /\ result'.op = "SubGrid.isVisible" => result'.val = FALSE
              /\ result'.op \notin {"SubGrid.getRecordIds", "SubGrid.isVisible"}
                   => result'.val = "undefined"
         ELSE result'.kind = "error" /\ result'.err = "not found"]_vars

C9_Witness ==
  /\ pc = "idle"
  /\ result.op = "SubGrid.getRecordCount"
  /\ result.name = AbsentControl
  /\ result.kind = "ok"
  /\ Len(rows) > 0

\* C9 (as claimed): every operation of the three layers that names a field or
\* control the form lacks raises "not found"; none returns a substitute value.
C9_AlwaysNotFound ==
  [][EndsOnAbsent => (result'.kind = "error" /\ result'.err = "not found")]_vars

\* C10: openNthRecord on a subgrid of the form with an index at or beyond the
\* number of loaded rows ends with the "out of range" error and the page stays
\* where it was, the form untouched.
C10_OutOfRangeNoNavigation ==
  [][(/\ pc = "idle"
      /\ call'.op = "SubGrid.openNthRecord"
      /\ call'.batch[1].name \in FormControls
      /\ call'.idx >= Len(rows))
     => (/\ pc' = "idle"
         /\ result'.op = "SubGrid.openNthRecord" /\ result'.name = call'.batch[1].name
         /\ result'.kind = "error" /\ result'.err = "out of range"
         /\ url' = url
         /\ form' = form)]_vars

C10_Witness ==
  /\ pc = "idle"
  /\ result.op = "SubGrid.openNthRecord" /\ result.name = GridControl
  /\ result.kind = "error" /\ result.err = "out of range"
  /\ Len(rows) > 0
  /\ call.idx = Len(rows)
  /\ url = ParentPage

\* the upper-case letters and the braces an id may hold
UpperCase == {"A", "B", "C", "D"}
\* the lower-case letter of each of them
LowerCaseOf == ("A" :> "a") @@ ("B" :> "b") @@ ("C" :> "c") @@ ("D" :> "d")
Braces == {"{", "}"}
\* a step in which `op` answers for the subgrid of the form
Answers(op) ==
  pc = "idle" /\ pc' = "idle" /\ result'.op = op /\ result'.name = GridControl
NotBrace(ch) == ch \notin Braces
\* the id with its braces taken out, letters as they were
Unbraced(id) == SelectSeq(id, NotBrace)

\* C11: getRecordIds on a subgrid of the form returns one id per loaded row, in
\* row order, each the row's id without its braces and in lower case; no id of
\* the result holds a brace or an upper-case letter, normalizing an id of the
\* result again gives the same id, and the ids returned are those of the loaded
\* rows and of no other record.
C11_RecordIdsNormalized ==
  [][Answers("SubGrid.getRecordIds") =>
       /\ result'.kind = "ok"
       /\ Len(result'.val) = Len(rows)
       /\ \A i \in 1..Len(rows) :
            LET out == result'.val[i]
                raw == Unbraced(rows[i].id)
            IN /\ Len(out) = Len(raw)
               /\ \A j \in 1..Len(out) :
                    /\ out[j] \notin Braces \cup UpperCase
                    /\ out[j] = IF raw[j] \in UpperCase THEN LowerCaseOf[raw[j]] ELSE raw[j]
               /\ NormalizeId(out) = out
       /\ {result'.val[i] : i \in 1..Len(result'.val)}
            = {NormalizeId(rows[i].id) : i \in 1..Len(rows)}
       /\ form' = form]_vars

C11_Witness ==
  /\ pc = "idle"
  /\ result.op = "SubGrid.getRecordIds" /\ result.name = GridControl
  /\ result.kind = "ok"
  /\ Len(rows) = 2
  /\ result.val = << <<"a", "1">>, <<"b", "2">> >>
  /\ rows[1].id = <<"{", "A", "1", "}">>

\* C12: in every form state the count getRecordCount has just returned for the
\* subgrid of the form is the number of ids getRecordIds returns for it in that
\* same state.
C12_CountEqualsNumberOfIds ==
  (/\ pc = "idle"
   /\ result.op = "SubGrid.getRecordCount" /\ result.name = GridControl)
  => result.val = Len(GetRecordIdsResult(GridControl).val)

(***************************************************************************)
(* The factories: AccountFactory and ContactFactory                        *)
(***************************************************************************)
\* latest value of the clock
MaxClock == 2
\* most calls the test makes to the factories
MaxCalls == 2
\* largest count given to createBulk
MaxCount == 2

\* a string is the sequence of its characters
Sp == <<" ">>
DigitChars == <<"0", "1", "2", "3", "4", "5", "6", "7", "8", "9">>
\* `${n}` of a non-negative integer: its decimal digits
RECURSIVE Digits(_)
Digits(n) ==
  IF n < 10 THEN <<DigitChars[n + 1]>>
  ELSE Digits(n \div 10) \o <<DigitChars[(n % 10) + 1]>>

\* an option of a factory is [option, field]: the key of the options object and
\* the key of the payload it is copied to; a binding adds the path it opens with
AccountFactory ==
  [name |-> "AccountFactory",
   primary |-> "name",
   defaultBase |-> 
     <<"T", "e", "s", "t", " ", "A", "c", "c", "o", "u", "n", "t">>,
   bulkBase |-> 
     <<"B", "u", "l", "k", " ", "T", "e", "s", "t", " ", "A", "c", "c", "o", "u", "n", "t">>,
   defaulted |-> {},
   copiedIfTruthy |-> {<<"phone", "telephone1">>, <<"secondaryPhone", "telephone2">>,
                       <<"email", "emailaddress1">>, <<"website", "websiteurl">>,
                       <<"addressLine1", "address1_line1">>, <<"city", "address1_city">>,
                       <<"state", "address1_stateorprovince">>,
                       <<"postalCode", "address1_postalcode">>,
                       <<"country", "address1_country">>,
                       <<"description", "description">>},
   copiedIfDefined |-> {<<"industry", "industrycode">>, <<"revenue", "revenue">>,
                        <<"employees", "numberofemployees">>},
   bindings |-> {<<"parentAccountId", "parentaccountid@odata.bind", 
     <<"/", "a", "c", "c", "o", "u", "n", "t", "s", "(">>>>,
                 <<"primaryContactId", "primarycontactid@odata.bind", 
     <<"/", "c", "o", "n", "t", "a", "c", "t", "s", "(">>>>}]

ContactFactory ==
  [name |-> "ContactFactory",
   primary |-> "lastname",
   defaultBase |-> <<"C", "o", "n", "t", "a", "c", "t">>,
   bulkBase |-> 
     <<"B", "u", "l", "k", " ", "C", "o", "n", "t", "a", "c", "t">>,
   defaulted |-> {<<"firstname", "firstname", <<"T", "e", "s", "t">>>>},
   copiedIfTruthy |-> {<<"email", "emailaddress1">>, <<"phone", "telephone1">>,
                       <<"mobile", "mobilephone">>, <<"jobTitle", "jobtitle">>,
                       <<"description", "description">>},
   copiedIfDefined |-> {<<"preferredContactMethod", "preferredcontactmethodcode">>},
   bindings |-> {<<"accountId", "parentcustomerid_account@odata.bind", 
     <<"/", "a", "c", "c", "o", "u", "n", "t", "s", "(">>>>}]

Factories == {AccountFactory, ContactFactory}

\* `if (options.k)` on a string option: the key is there and its string is not empty
Truthy(options, k) == k \in DOMAIN options /\ options[k] # <<>>
\* Defined that takes 0 for undefined
DefinedAndNonZero(options, k) == k \in DOMAIN options /\ options[k] # 0

\* `if (options.k !== undefined)`
Defined(options, k) == k \in DOMAIN options

\* PrimaryName that appends no timestamp
PrimaryNameNoTimestamp(F, options, timestamp) ==
  IF Truthy(options, F.primary) THEN options[F.primary] ELSE F.defaultBase

\* options.name ? `${options.name} ${timestamp}` : `Test Account ${timestamp}`
PrimaryName(F, options, timestamp) ==
  IF Truthy(options, F.primary)
    THEN options[F.primary] \o Sp \o Digits(timestamp)
    ELSE F.defaultBase \o Sp \o Digits(timestamp)

\* Bindings that binds whenever the option is there, empty or not
BindingsIfDefined(F, options) == {b \in F.bindings : Defined(options, b[1])}

\* the bindings create writes: `if (options.parentAccountId) { ... }`
Bindings(F, options) == {b \in F.bindings : Truthy(options, b[1])}

\* `/accounts(${options.parentAccountId})`
BindingPath(b, options) == b[3] \o options[b[1]] \o <<")">>

\* create(options), the clock reading `timestamp`: the payload, a function from
\* the keys it holds to their values
Create(F, options, timestamp) ==
  LET copied == {c \in F.copiedIfTruthy : Truthy(options, c[1])}
                  \cup {c \in F.copiedIfDefined : Defined(options, c[1])}
      bound == Bindings(F, options)
      keys == {F.primary} \cup {d[2] : d \in F.defaulted} \cup {c[2] : c \in copied}
                \cup {b[2] : b \in bound}
  IN [f \in keys |->
        IF f = F.primary THEN PrimaryName(F, options, timestamp)
        ELSE IF \E d \in F.defaulted : d[2] = f
          THEN LET d == CHOOSE d \in F.defaulted : d[2] = f
               IN IF Truthy(options, d[1]) THEN options[d[1]] ELSE d[3]
        ELSE IF \E c \in copied : c[2] = f
          THEN options[(CHOOSE c \in copied : c[2] = f)[1]]
        ELSE BindingPath(CHOOSE b \in bound : b[2] = f, options)]

\* BulkOptions that gives every payload of the batch the same name
BulkOptionsSameName(F, options, i) ==
  LET name == IF Truthy(options, F.primary) THEN options[F.primary] ELSE F.bulkBase
  IN [k \in DOMAIN options \cup {F.primary} |-> IF k = F.primary THEN name ELSE options[k]]

\* { ...options, name: options.name ? `${options.name} ${i + 1}` : `Bulk Test Account ${i + 1}` }
BulkOptions(F, options, i) ==
  LET name == IF Truthy(options, F.primary)
                THEN options[F.primary] \o Sp \o Digits(i + 1)
                ELSE F.bulkBase \o Sp \o Digits(i + 1)
  IN [k \in DOMAIN options \cup {F.primary} |-> IF k = F.primary THEN name ELSE options[k]]

\* a call to a factory: what it was given, where its loop is, what it has made
FactoryCall(op, F, count, options) ==
  [op |-> op, factory |-> F, count |-> count, options |-> options, i |-> 0, out |-> <<>>]

\* Date.now() moves on
Tick ==
  /\ clock < MaxClock
  /\ clock' = clock + 1
  /\ UNCHANGED <<form, pc, call, events, result, calls, env, store, createdEntities, tables, tasks>>

\* the test calls F.create(options): getTimestamp() reads the clock
FactoryCreate(F, options) ==
  /\ pc = "idle"
  /\ calls < MaxCalls
  /\ calls' = calls + 1
  /\ call' = FactoryCall("create", F, 0, options)
  /\ events' = <<Event("Date.now", 0, clock)>>
  /\ result' = Ok("create", F.name, Create(F, options, clock))
  /\ pc' = "idle"
  /\ UNCHANGED <<form, clock, env, store, createdEntities, tables, tasks>>

\* the test calls F.createBulk(count, options): the list starts empty
FactoryCreateBulk(F, count, options) ==
  /\ pc = "idle"
  /\ calls < MaxCalls
  /\ calls' = calls + 1
  /\ call' = FactoryCall("createBulk", F, count, options)
  /\ events' = <<>>
  /\ result' = NoResult
  /\ pc' = "bulk"
  /\ UNCHANGED <<form, clock, env, store, createdEntities, tables, tasks>>

\* CreateBulkPush that writes the numbered name into the caller's options
CreateBulkPushInPlace ==
  /\ pc = "bulk"
  /\ call.i < call.count
  /\ call' = [call EXCEPT
                !.options = BulkOptions(call.factory, call.options, call.i),
                !.out = Append(call.out,
                               Create(call.factory,
                                      BulkOptions(call.factory, call.options, call.i),
                                      clock)),
                !.i = call.i + 1]
  /\ events' = Append(events, Event("Date.now", call.i, clock))
  /\ UNCHANGED <<form, pc, result, clock, calls, env, store, createdEntities, tables, tasks>>

\* one turn of the loop of createBulk: accounts.push(this.create(accountOptions))
CreateBulkPush ==
  /\ pc = "bulk"
  /\ call.i < call.count
  /\ call' = [call EXCEPT
                !.out = Append(call.out,
                               Create(call.factory,
                                      BulkOptions(call.factory, call.options, call.i),
                                      clock)),
                !.i = call.i + 1]
  /\ events' = Append(events, Event("Date.now", call.i, clock))
  /\ UNCHANGED <<form, pc, result, clock, calls, env, store, createdEntities, tables, tasks>>

\* the loop of createBulk is over: the list is returned
CreateBulkReturn ==
  /\ pc = "bulk"
  /\ ~(call.i < call.count)
  /\ result' = Ok("createBulk", call.factory.name, call.out)
  /\ pc' = "idle"
  /\ UNCHANGED <<form, call, events, clock, calls, env, store, createdEntities, tables, tasks>>

(***************************************************************************)
(* SpecFactory: the test calls create and createBulk of both factories     *)
(* while the clock runs                                                    *)
(***************************************************************************)
\* sample values of the options
SomeName == <<"X">>
SomePhone == <<"5">>
SomeId == <<"a", "1">>
\* what the test may do with an option: leave it out, give '', give a value
Choices == {"absent", "empty", "value"}
\* the options the test varies, per factory, and the value it gives each
VariedOptions(F) ==
  IF F.name = "AccountFactory"
    THEN {"name", "phone", "parentAccountId", "primaryContactId"}
    ELSE {"firstname", "lastname", "accountId"}
SampleValue(k) ==
  CASE k \in {"name", "lastname", "firstname"} -> SomeName
    [] k = "phone" -> SomePhone
    [] OTHER -> SomeId
\* the primary name and the relationships are also given as ''
ChoicesOf(k) == IF k \in {"phone", "firstname"} THEN {"absent", "value"} ELSE Choices
\* the options objects the test passes
OptionsOf(F) ==
  {[k \in {k \in VariedOptions(F) : c[k] # "absent"} |->
      IF c[k] = "empty" THEN <<>> ELSE SampleValue(k)] :
    c \in {c \in [VariedOptions(F) -> Choices] :
             \A k \in VariedOptions(F) : c[k] \in ChoicesOf(k)}}

InitFactory == InitForm(<<TRUE, TRUE>>, 0, 0)

NextFactory ==
  \/ Tick
  \/ \E F \in Factories : \E o \in OptionsOf(F) : FactoryCreate(F, o)
  \/ \E F \in Factories, n \in 0..MaxCount : \E o \in OptionsOf(F) :
       FactoryCreateBulk(F, n, o)
  \/ CreateBulkPush
  \/ CreateBulkReturn

SpecFactory == InitFactory /\ [][NextFactory]_vars

\* a factory call has ended and its outcome is what the test holds
Returned(op) == pc = "idle" /\ result.op = op /\ result.kind = "ok"
\* the payloads of the call that ended, and the options create was given for each
Made == IF result.op = "create" THEN <<result.val>> ELSE result.val
ReadAt(i) == events[i].x

\* C13: createBulk(n, options) of either factory returns n payloads (none for
\* n = 0) whose primary names differ pairwise, also when the clock did not move
\* during the call, and whose other fields are those of create(options).
C13_BulkDistinctNamesSameFields ==
  Returned("createBulk") =>
    LET F == call.factory
        out == result.val
    IN /\ Len(out) = call.count
       /\ \A i, j \in 1..Len(out) : i # j => out[i][F.primary] # out[j][F.primary]
       /\ \A i \in 1..Len(out) :
            LET single == Create(F, call.options, ReadAt(i))
            IN /\ DOMAIN out[i] = DOMAIN single
               /\ \A f \in DOMAIN single \ {F.primary} : out[i][f] = single[f]

C13_Witness ==
  /\ Returned("createBulk")
  /\ call.factory.name = "ContactFactory"
  /\ Len(result.val) = 2
  /\ ReadAt(1) = ReadAt(2)
  /\ "accountId" \in DOMAIN call.options
  /\ "parentcustomerid_account@odata.bind" \in DOMAIN result.val[2]

\* C14: two payloads that create of one factory returned in two calls have
\* different primary names, whatever the options and the clock of the calls.
C14_CreatedNamesDiffer ==
  [][(/\ Returned("create")
      /\ pc' = "idle" /\ result'.op = "create" /\ calls' = calls + 1
      /\ result'.name = result.name)
     => result'.val[call'.factory.primary] # result.val[call.factory.primary]]_vars

\* the default base of the primary name, per factory
DefaultName(F) ==
  IF F.name = "AccountFactory" THEN <<"T", "e", "s", "t", " ", "A", "c", "c", "o", "u", "n", "t">>
  ELSE <<"C", "o", "n", "t", "a", "c", "t">>
DefaultBulkName(F) ==
  IF F.name = "AccountFactory" THEN 
    <<"B", "u", "l", "k", " ", "T", "e", "s", "t", " ", "A", "c", "c", "o", "u", "n", "t">>
  ELSE <<"B", "u", "l", "k", " ", "C", "o", "n", "t", "a", "c", "t">>
\* the name the caller gave, or `default` when it gave none or ''
BaseName(F, options, default) ==
  IF F.primary \in DOMAIN options /\ Len(options[F.primary]) > 0
    THEN options[F.primary] ELSE default

\* C15: the primary name of a payload of create is '<base> <timestamp>': the
\* name supplied, or 'Test Account' / 'Contact' when none or '' was supplied,
\* followed once by a blank and the clock value read in that call; createBulk
\* hands create the name '<base> <i>' and the payload gets one timestamp after it.
C15_NameIsBaseThenTimestamp ==
  /\ Returned("create") =>
       result.val[call.factory.primary]
         = BaseName(call.factory, call.options, DefaultName(call.factory))
             \o <<" ">> \o Digits(ReadAt(1))
  /\ Returned("createBulk") =>
       \A i \in 1..Len(result.val) :
         result.val[i][call.factory.primary]
           = BaseName(call.factory, call.options, DefaultBulkName(call.factory))
               \o <<" ">> \o Digits(i) \o <<" ">> \o Digits(ReadAt(i))

C15_Witness ==
  /\ Returned("create")
  /\ call.factory.name = "AccountFactory"
  /\ "name" \in DOMAIN call.options /\ call.options["name"] = <<>>
  /\ ReadAt(1) = 1
  /\ result.val["name"] = 
    <<"T", "e", "s", "t", " ", "A", "c", "c", "o", "u", "n", "t", " ", "1">>

\* the collections of the two entities
Accounts == <<"a", "c", "c", "o", "u", "n", "t", "s">>
Contacts == <<"c", "o", "n", "t", "a", "c", "t", "s">>
\* the binding keys of the payloads: [option, key, collection]
BindingKeys(F) ==
  IF F.name = "AccountFactory"
    THEN {<<"parentAccountId", "parentaccountid@odata.bind", Accounts>>,
          <<"primaryContactId", "primarycontactid@odata.bind", Contacts>>}
    ELSE {<<"accountId", "parentcustomerid_account@odata.bind", Accounts>>}
\* '/<collection>(<identifier>)'
RelativePath(collection, id) == <<"/">> \o collection \o <<"(">> \o id \o <<")">>

\* C16 (as amended): a payload carries a binding key if and only if the
\* relationship option was supplied and is not '', and the value of the key is
\* '/accounts(P)', '/contacts(C)' or '/accounts(A)' with the identifier as given.
C16_BindingIffSuppliedNonEmpty ==
  (Returned("create") \/ Returned("createBulk")) =>
    \A i \in 1..Len(Made) : \A b \in BindingKeys(call.factory) :
      /\ b[2] \in DOMAIN Made[i]
           <=> (b[1] \in DOMAIN call.options /\ call.options[b[1]] # <<>>)
      /\ b[2] \in DOMAIN Made[i] => Made[i][b[2]] = RelativePath(b[3], call.options[b[1]])

C16_Witness ==
  /\ Returned("create")
  /\ call.factory.name = "AccountFactory"
  /\ "primaryContactId" \in DOMAIN call.options /\ call.options["primaryContactId"] = <<>>
  /\ "primarycontactid@odata.bind" \notin DOMAIN result.val
  /\ "parentAccountId" \in DOMAIN call.options /\ call.options["parentAccountId"] = SomeId
  /\ result.val["parentaccountid@odata.bind"] = RelativePath(Accounts, SomeId)

\* C16 (as claimed): a payload carries a binding key if and only if the
\* relationship option was supplied.
C16_BindingIffSupplied ==
  (Returned("create") \/ Returned("createBulk")) =>
    \A i \in 1..Len(Made) : \A b \in BindingKeys(call.factory) :
      b[2] \in DOMAIN Made[i] <=> b[1] \in DOMAIN call.options

(***************************************************************************)
(* The data store behind WebApi, and the SHOWCASE test of the demo         *)
(***************************************************************************)
\* createdEntities.reverse()
Reverse(s) == [i \in 1..Len(s) |-> s[Len(s) + 1 - i]]

\* the identifier the store gives the next record it creates
NewId == <<"r">> \o Digits(Cardinality(store) + 1)

\* the records a payload binds its record to: the identifier between the
\* parentheses of every binding value
RefsOf(data) ==
  {SubSeq(data[b[2]], Len(b[3]) + 1, Len(data[b[2]]) - 1) :
     b \in {b \in UNION {F.bindings : F \in Factories} : b[2] \in DOMAIN data}}

\* a record some existing record still refers to
Referenced(id) == \E r \in store : id \in r.refs

\* the steps of the test body, in order: which WebApi call it makes, with the
\* payload of which factory, and which tracked records it links (0: none).
\* Steps 6 to 12 drive the page and verify; they write nothing to the store.
DemoStep(op, entityType, F, options, linkTo, linkFrom) ==
  [op |-> op, entityType |-> entityType, factory |-> F, options |-> options,
   linkTo |-> linkTo, linkFrom |-> linkFrom]
UiStep == DemoStep("ui", "", AccountFactory, <<>>, 0, 0)
DemoSteps ==
  << DemoStep("createRecord", "account", AccountFactory,
              [name |->
                 <<"C", "o", "n", "t", "o", "s", "o", " ", "C", "o", "r", "p", "o", "r", "a", "t", "i", "o", "n">>],
              0, 0),
     DemoStep("createRecord", "account", AccountFactory,
              [name |->
                 <<"F", "a", "b", "r", "i", "k", "a", "m", " ", "I", "n", "d", "u", "s", "t", "r", "i", "e", "s">>],
              0, 0),
     DemoStep("createRecord", "contact", ContactFactory,
              [firstname |-> <<"J", "o", "h", "n">>,
               lastname |-> <<"P", "r", "i", "m", "a", "r", "y">>], 1, 0),
     DemoStep("updateRecord", "account", AccountFactory, <<>>, 3, 1),
     DemoStep("createRecord", "contact", ContactFactory,
              [firstname |-> <<"J", "a", "n", "e">>,
               lastname |-> <<"S", "e", "c", "o", "n", "d", "a", "r", "y">>], 1, 0),
     UiStep, UiStep, UiStep, UiStep, UiStep, UiStep, UiStep >>

\* where the test is: in its body at step `idx`, or in the loop of the cleanup
\* at position `idx` of the reversed list
DemoCall(idx) == [op |-> "SHOWCASE", idx |-> idx]
AtStep(op) ==
  /\ pc = "body"
  /\ call.idx <= Len(DemoSteps)
  /\ DemoSteps[call.idx].op = op

\* the test starts: const createdEntities = []
DemoStart ==
  /\ pc = "idle"
  /\ call.op # "SHOWCASE"
  /\ pc' = "body"
  /\ call' = DemoCall(1)
  /\ createdEntities' = <<>>
  /\ events' = <<>>
  /\ result' = NoResult
  /\ UNCHANGED <<form, clock, calls, env, store, tables, tasks>>

\* F.create(options), webApi.createRecord(entityType, data) returns the new
\* record's reference, createdEntities.push({ id, entityType })
DemoCreateRecord ==
  /\ AtStep("createRecord")
  /\ LET st == DemoSteps[call.idx]
         options == IF st.linkTo = 0 THEN st.options
                    ELSE [k \in DOMAIN st.options \cup {"accountId"} |->
                            IF k = "accountId" THEN createdEntities[st.linkTo].id
                            ELSE st.options[k]]
         data == Create(st.factory, options, clock)
     IN /\ store' = store \cup {[id |-> NewId, entityType |-> st.entityType,
                                 refs |-> RefsOf(data)]}
        /\ createdEntities' = Append(createdEntities,
                                     [id |-> NewId, entityType |-> st.entityType])
        /\ events' = Append(events, Event("createRecord", call.idx, NewId))
  /\ call' = DemoCall(call.idx + 1)
  /\ UNCHANGED <<form, pc, result, clock, calls, env, tables, tasks>>

\* DemoUpdateRecord that binds the account to a contact not created yet
DemoUpdateRecordUncreated ==
  /\ AtStep("updateRecord")
  /\ LET st == DemoSteps[call.idx]
         target == createdEntities[st.linkFrom].id
         data == [k \in {"primarycontactid@odata.bind"} |->
                    <<"/", "c", "o", "n", "t", "a", "c", "t", "s", "(">>
                      \o NewId \o <<")">>]
     IN /\ store' = {IF r.id = target THEN [r EXCEPT !.refs = r.refs \cup RefsOf(data)]
                     ELSE r : r \in store}
        /\ events' = Append(events, Event("updateRecord", call.idx, target))
  /\ call' = DemoCall(call.idx + 1)
  /\ UNCHANGED <<form, pc, result, clock, calls, env, createdEntities, tables, tasks>>

\* webApi.updateRecord('account', account.id,
\*   { 'primarycontactid@odata.bind': `/contacts(${primaryContact.id})` })
DemoUpdateRecord ==
  /\ AtStep("updateRecord")
  /\ LET st == DemoSteps[call.idx]
         target == createdEntities[st.linkFrom].id
         data == [k \in {"primarycontactid@odata.bind"} |->
                    <<"/", "c", "o", "n", "t", "a", "c", "t", "s", "(">>
                      \o createdEntities[st.linkTo].id \o <<")">>]
     IN /\ store' = {IF r.id = target THEN [r EXCEPT !.refs = r.refs \cup RefsOf(data)]
                     ELSE r : r \in store}
        /\ events' = Append(events, Event("updateRecord", call.idx, target))
  /\ call' = DemoCall(call.idx + 1)
  /\ UNCHANGED <<form, pc, result, clock, calls, env, createdEntities, tables, tasks>>

\* a step that navigates, reads the page or verifies passes
DemoUiStep ==
  /\ AtStep("ui")
  /\ call' = DemoCall(call.idx + 1)
  /\ UNCHANGED <<form, pc, result, events, harness>>

\* the step the body is at throws: control passes to the finally block
DemoStepThrows ==
  /\ pc = "body"
  /\ call.idx <= Len(DemoSteps)
  /\ pc' = "finally"
  /\ result' = Err("SHOWCASE", "", "step failed")
  /\ UNCHANGED <<form, call, events, harness>>

\* the last step of the body has passed: control passes to the finally block
DemoBodyEnds ==
  /\ pc = "body"
  /\ call.idx > Len(DemoSteps)
  /\ pc' = "finally"
  /\ result' = Ok("SHOWCASE", "", <<>>)
  /\ UNCHANGED <<form, call, events, harness>>

\* for (const { id, entityType } of createdEntities.reverse()): the list is
\* reversed in place and the loop starts at its head
CleanupReverse ==
  /\ pc = "finally"
  /\ createdEntities' = Reverse(createdEntities)
  /\ call' = DemoCall(1)
  /\ pc' = "cleanup"
  /\ UNCHANGED <<form, events, result, clock, calls, env, store, tables, tasks>>

\* CleanupDelete whose failing delete leaves the loop
CleanupDeleteRethrows ==
  /\ pc = "cleanup"
  /\ call.idx <= Len(createdEntities)
  /\ LET e == createdEntities[call.idx]
     IN IF Referenced(e.id)
          THEN /\ events' = events \o <<Event("deleteRecord", call.idx, e.id),
                                        Event("deleteFailed", call.idx, e.id)>>
               /\ call' = DemoCall(Len(createdEntities) + 1)
               /\ UNCHANGED store
          ELSE /\ events' = events \o <<Event("deleteRecord", call.idx, e.id),
                                        Event("deleted", call.idx, e.id)>>
               /\ call' = DemoCall(call.idx + 1)
               /\ store' = {r \in store : r.id # e.id}
  /\ UNCHANGED <<form, pc, result, clock, calls, env, createdEntities, tables, tasks>>

\* one turn of the cleanup loop: webApi.deleteRecord(entityType, id) inside
\* try/catch; the store rejects the deletion of a record that an existing
\* record refers to, the catch logs the failure and the loop goes on
CleanupDelete ==
  /\ pc = "cleanup"
  /\ call.idx <= Len(createdEntities)
  /\ LET e == createdEntities[call.idx]
     IN IF Referenced(e.id)
          THEN /\ events' = events \o <<Event("deleteRecord", call.idx, e.id),
                                        Event("deleteFailed", call.idx, e.id)>>
               /\ UNCHANGED store
          ELSE /\ events' = events \o <<Event("deleteRecord", call.idx, e.id),
                                        Event("deleted", call.idx, e.id)>>
               /\ store' = {r \in store : r.id # e.id}
  /\ call' = DemoCall(call.idx + 1)
  /\ UNCHANGED <<form, pc, result, clock, calls, env, createdEntities, tables, tasks>>

\* the loop is over: 'Cleanup completed', the test ends
CleanupDone ==
  /\ pc = "cleanup"
  /\ call.idx > Len(createdEntities)
  /\ pc' = "done"
  /\ UNCHANGED <<form, call, events, result, harness>>

(***************************************************************************)
(* SpecDemo: the SHOWCASE test against the store, any step of its body     *)
(* passing or throwing, while the clock runs                               *)
(***************************************************************************)
InitDemo == InitForm(<<TRUE, TRUE>>, 0, 0)

NextDemo ==
  \/ Tick
  \/ DemoStart
  \/ DemoCreateRecord
  \/ DemoUpdateRecord
  \/ DemoUiStep
  \/ DemoStepThrows
  \/ DemoBodyEnds
  \/ CleanupReverse
  \/ CleanupDelete
  \/ CleanupDone

SpecDemo == InitDemo /\ [][NextDemo]_vars

\* the events of one kind, in the order they happened
EventsNamed(e) == SelectSeq(events, LAMBDA ev : ev.e = e)
Ids(evs) == [i \in 1..Len(evs) |-> evs[i].x]

\* the steps of the test, the clock aside
DemoProgress ==
  \/ DemoStart
  \/ DemoCreateRecord
  \/ DemoUpdateRecord
  \/ DemoUiStep
  \/ DemoStepThrows
  \/ DemoBodyEnds
  \/ CleanupReverse
  \/ CleanupDelete
  \/ CleanupDone

\* C17: when the test ends, every record whose createRecord returned has had
\* exactly one delete attempt, the attempts were made in the reverse of the
\* creation order, also when a step of the body threw and when a delete failed;
\* until then the test can always take its next step, and every record is
\* tracked as soon as its createRecord has returned.
C17_CleanupAttemptsAllInReverse ==
  /\ pc = "done" => Ids(EventsNamed("deleteRecord")) = Reverse(Ids(EventsNamed("createRecord")))
  /\ pc \in {"body", "finally"} =>
       Ids(EventsNamed("createRecord")) = [i \in 1..Len(createdEntities) |-> createdEntities[i].id]
  /\ pc \in {"body", "finally", "cleanup"} => ENABLED DemoProgress

C17_Witness ==
  /\ pc = "done"
  /\ result.kind = "error"
  /\ Len(EventsNamed("createRecord")) = 4
  /\ Len(EventsNamed("deleteRecord")) = 4
  /\ EventsNamed("deleteFailed") # <<>>
  /\ events[Len(events)].e = "deleteFailed"

\* C18: in the cleanup of the test, which deletes the tracked records in the
\* reverse of their creation order, the store rejects no deletion because of a
\* reference, whichever step the body reached.
C18_ReverseOrderNeverRejected ==
  EventsNamed("deleteFailed") = <<>>

(***************************************************************************)
(* test-config.ts and the beforeEach hook of the test file                 *)
(***************************************************************************)
\* the variables the README tells the user to put in .env
ReadmeVars == {"APP_URL", "O365_USERNAME", "O365_PASSWORD"}

\* process.env.V || ''
Getenv(v) == IF v \in DOMAIN env /\ env[v] # "" THEN env[v] ELSE ""

\* the testConfig object, read from the environment when the module loads
testConfig ==
  [mdaUrl |-> Getenv("MDA_URL"),
   username |-> Getenv("O365_USERNAME"),
   password |-> Getenv("O365_PASSWORD")]

\* MissingSettings that does not look at the password
MissingSettingsNoPassword ==
  (IF testConfig.mdaUrl = "" THEN <<"MDA_URL">> ELSE <<>>)
    \o (IF testConfig.username = "" THEN <<"O365_USERNAME">> ELSE <<>>)

\* the list `missing` of validateConfig, in the order of its three tests
MissingSettings ==
  (IF testConfig.mdaUrl = "" THEN <<"MDA_URL">> ELSE <<>>)
    \o (IF testConfig.username = "" THEN <<"O365_USERNAME">> ELSE <<>>)
    \o (IF testConfig.password = "" THEN <<"O365_PASSWORD">> ELSE <<>>)

\* missing.join(', '): the pieces of the joined string
RECURSIVE Join(_)
Join(names) ==
  IF Len(names) <= 1 THEN names
  ELSE <<Head(names), ", ">> \o Join(Tail(names))

\* the message of the error validateConfig throws, piece by piece
MissingMessage(missing) ==
  <<"Missing required environment variables: ">> \o Join(missing)
    \o <<"\nPlease check your .env file.">>

\* the page of a browser that has not navigated yet
BlankPage == [etn |-> "about:blank", id |-> ""]

\* beforeEach: validateConfig() returns, or throws and the test is aborted
ValidateConfig ==
  /\ pc = "beforeEach"
  /\ IF Len(MissingSettings) > 0
       THEN /\ result' = [Err("validateConfig", "", "missing configuration")
                            EXCEPT !.val = MissingMessage(MissingSettings)]
            /\ pc' = "aborted"
       ELSE /\ result' = Ok("validateConfig", "", <<>>)
            /\ pc' = "goto"
  /\ UNCHANGED <<form, call, events, harness>>

\* beforeEach: await page.goto(testConfig.mdaUrl)
BeforeEachGoto ==
  /\ pc = "goto"
  /\ url' = [etn |-> "app", id |-> testConfig.mdaUrl]
  /\ events' = Append(events, Event("goto", 0, testConfig.mdaUrl))
  /\ pc' = "construct"
  /\ UNCHANGED <<attrs, controls, rows, total, call, result, harness>>

\* beforeEach: the helpers are constructed and the body of the test may start
BeforeEachConstruct ==
  /\ pc = "construct"
  /\ pc' = "idle"
  /\ UNCHANGED <<form, call, events, result, harness>>

(***************************************************************************)
(* SpecConfig: beforeEach under every environment                          *)
(***************************************************************************)
\* every .env file: each variable absent, set to '' or set to its value
Envs ==
  UNION {{[v \in D |-> IF v \in E THEN "" ELSE EnvValue(v)] : E \in SUBSET D} :
           D \in SUBSET (EnvVars \cup ReadmeVars)}

InitConfig ==
  /\ env \in Envs
  /\ attrs = <<>>
  /\ controls = <<>>
  /\ rows = <<>>
  /\ total = 0
  /\ url = BlankPage
  /\ pc = "beforeEach"
  /\ call = NoCall
  /\ events = <<>>
  /\ result = NoResult
  /\ clock = 0
  /\ calls = 0
  /\ store = {}
  /\ createdEntities = <<>>
  /\ tables = LoadedTables
  /\ tasks = <<>>

NextConfig ==
  \/ ValidateConfig
  \/ BeforeEachGoto
  \/ BeforeEachConstruct

SpecConfig == InitConfig /\ [][NextConfig]_vars

\* the settings the environment leaves empty: the variable is not set, or is ''
Unset(v) == v \notin DOMAIN env \/ env[v] = ""
RequiredVars == {"MDA_URL", "O365_USERNAME", "O365_PASSWORD"}
\* the variables a message names
NamedIn(message) == {v \in RequiredVars : \E i \in 1..Len(message) : message[i] = v}

\* C19: validateConfig throws the 'missing configuration' error if and only if
\* the URL, the username or the password is empty, the message names the empty
\* ones and no other, and the page navigates only after the check has passed:
\* with an empty setting the test is aborted on the blank page.
C19_MissingConfigurationBeforeNavigation ==
  /\ pc # "beforeEach" =>
       /\ result.op = "validateConfig"
       /\ (result.kind = "error") <=> (\E v \in RequiredVars : Unset(v))
       /\ result.kind = "error" =>
            /\ result.err = "missing configuration"
            /\ NamedIn(result.val) = {v \in RequiredVars : Unset(v)}
            /\ pc = "aborted"
  /\ (url # BlankPage \/ events # <<>>) =>
       /\ result.op = "validateConfig" /\ result.kind = "ok"
       /\ \A v \in RequiredVars : ~Unset(v)
  /\ pc = "beforeEach" => (url = BlankPage /\ events = <<>>)

C19_Witness ==
  /\ pc = "aborted"
  /\ url = BlankPage
  /\ events = <<>>
  /\ ~Unset("O365_USERNAME")
  /\ NamedIn(result.val) = {"MDA_URL", "O365_PASSWORD"}

\* C20: with APP_URL, O365_USERNAME and O365_PASSWORD set as the README says
\* and no other variable set, validateConfig does not throw and
\* testConfig.mdaUrl is the URL of the application.
C20_ReadmeEnvironmentPasses ==
  (/\ pc # "beforeEach"
   /\ DOMAIN env = ReadmeVars
   /\ \A v \in ReadmeVars : env[v] # "")
  => (result.kind = "ok" /\ testConfig.mdaUrl = env["APP_URL"])


(***************************************************************************)
(* Claims about single calls on the form (Spec, SpecDate)                  *)
(***************************************************************************)
\* what getFormattedValue answers on the form as loaded
FormattedWhenLoaded(n) == AttributeFormat(n)

\* C21: getFormattedValue on a field of the form returns the formatted text of
\* the field's current value: once the value of the field is no longer the one
\* the form was loaded with, the answer is no longer the one given for the
\* loaded form.
C21_FormattedValueFollowsValue ==
  (/\ pc = "idle"
   /\ result.op = "getFormattedValue" /\ result.kind = "ok"
   /\ attrs[result.name].value # LoadedAttrs[result.name].value)
  => result.val # FormattedWhenLoaded(result.name)

\* C27: openNthRecord on a subgrid of the form with a negative index ends with
\* the "out of range" error and the page stays where it was.
C27_NegativeIndexOutOfRange ==
  (/\ pc = "idle"
   /\ call.op = "SubGrid.openNthRecord"
   /\ call.batch[1].name \in FormControls
   /\ call.idx < 0)
  => (/\ result.kind = "error" /\ result.err = "out of range"
      /\ url = ParentPage)

\* C28: when setValue(field, null) has succeeded on the datetime field, the
\* value the form holds for the field is null.
C28_NullClearsDateField ==
  (/\ pc = "idle"
   /\ call.op = "setValue"
   /\ result.op = "setValue" /\ result.kind = "ok"
   /\ call.batch[1].name = "createdon"
   /\ call.batch[1].value = NullV)
  => attrs["createdon"].value = NullV


\* Control.get would report the control usable: visible and not disabled
ReportsUsable(c) ==
  ControlGetResult(c).val.isVisible /\ ~ControlGetResult(c).val.isDisabled

\* C23: for every control of a field, whatever the visibility of the control,
\* of its parent and of its grandparent (each present or absent), Control.get
\* reports isVisible exactly when the check of setValue passes the control
\* with its disabled flag left aside; and a setValue without forceValue on a
\* field of the form succeeds exactly when Control.get reports some control of
\* the field visible and not disabled.
C23_SameVisibilityRule ==
  /\ \A c \in FieldControls :
       ControlGetResult(c).val.isVisible
         <=> EditableControl([controls[c] EXCEPT !.disabled = FALSE])
  /\ (/\ pc = "idle"
      /\ call.op = "setValue" /\ result.op = "setValue"
      /\ ~Forced
      /\ Entry.name \in FormFields)
     => (result.kind = "ok" <=> \E c \in ControlsOf(Entry.name) : ReportsUsable(c))

C23_Witness ==
  /\ pc = "idle"
  /\ call.op = "setValue" /\ ~Forced
  /\ result.op = "setValue" /\ result.name = "createdon"
  /\ result.kind = "error" /\ result.err = "uneditable"
  /\ controls["header_createdon"].disabled
  /\ ~controls["createdon"].disabled
  /\ controls["createdon"].visible
  /\ controls["createdon"].parents = <<TRUE, FALSE>>
  /\ ~ControlGetResult("createdon").val.isVisible


\* the record form of an entity reference
FormOf(ref) == [etn |-> ref.entityType, id |-> ref.id]
\* the reference of the row at zero-based position i of the subgrid as loaded
RowAt(i) == [id |-> GridRows[i + 1].id, entityType |-> GridRows[i + 1].entityType]

\* C26: while openNthRecord(subgrid, i) has read the row but not yet navigated,
\* the page is still on the parent form and nothing has been returned; once it
\* has navigated, the page is on the record form of row i as it was read, and
\* still nothing has been returned until the wait on the new page is over; the
\* reference returned after that is the one of row i, id and entity type, and
\* the page is on the record form of that same reference.
C26_OpensAndReturnsRowI ==
  /\ (pc = "goto") =>
       /\ call.idx \in 0..(Len(rows) - 1)
       /\ call.ref = RowAt(call.idx)
       /\ call.ref = [id |-> rows[call.idx + 1].id, entityType |-> rows[call.idx + 1].entityType]
       /\ url = ParentPage
       /\ result = NoResult
  /\ (pc = "ready") =>
       /\ url = FormOf(RowAt(call.idx))
       /\ result = NoResult
  /\ (/\ pc = "idle"
      /\ call.op = "SubGrid.openNthRecord"
      /\ result.op = "SubGrid.openNthRecord" /\ result.kind = "ok")
     => (/\ result.val = RowAt(call.idx)
         /\ url = FormOf(result.val))

C26_Witness ==
  /\ pc = "idle"
  /\ call.op = "SubGrid.openNthRecord" /\ call.idx = 1
  /\ result.op = "SubGrid.openNthRecord" /\ result.kind = "ok"
  /\ result.val = [id |-> <<"b", "2">>, entityType |-> "contact"]
  /\ url = [etn |-> "contact", id |-> <<"b", "2">>]


(***************************************************************************)
(* Claims about the references the test sends (SpecDemo)                   *)
(***************************************************************************)
\* the identifiers of the records the test tracks: those whose createRecord returned
TrackedIds == {createdEntities[i].id : i \in 1..Len(createdEntities)}
StoredIds == {r.id : r \in store}

\* C30: while the body of the test runs, and when it has just ended, every
\* reference a created or updated record carries is to a record whose
\* createRecord has returned and that is still in the store, and no delete has
\* been issued; deletes are issued in the cleanup only.
C30_NoDanglingReferenceNoEarlyDelete ==
  /\ pc \in {"body", "finally"} =>
       /\ \A r \in store : r.refs \subseteq (TrackedIds \cap StoredIds)
       /\ EventsNamed("deleteRecord") = <<>>
  /\ EventsNamed("deleteRecord") # <<>> => pc \in {"cleanup", "done"}
  /\ \A i \in 1..Len(events) :
       events[i].e \in {"createRecord", "updateRecord"} =>
         \A j \in 1..(i - 1) : events[j].e \notin {"deleteRecord", "deleted", "deleteFailed"}

C30_Witness ==
  /\ pc = "body"
  /\ Len(EventsNamed("updateRecord")) = 1
  /\ Len(EventsNamed("createRecord")) = 4
  /\ \E r \in store : r.entityType = "account" /\ r.refs # {}
  /\ Cardinality({r \in store : r.entityType = "contact" /\ r.refs # {}}) = 2


(***************************************************************************)
(* SpecPayload: create and createBulk with the scenarios of the fixtures   *)
(* and with options that are 0 or ''                                       *)
(***************************************************************************)
\* the text of an option, different for every option
Text(k) == <<k>>
\* an options object that gives each option of `keys` its text
Texts(keys) == [k \in keys |-> Text(k)]

\* ACCOUNT_TEST_SCENARIOS.SIMPLE_ACCOUNT.data.account
SIMPLE_ACCOUNT == Texts({"name", "phone", "email"})
\* ACCOUNT_TEST_SCENARIOS.ENTERPRISE_ACCOUNT.data.account
ENTERPRISE_ACCOUNT ==
  Texts({"name", "phone", "secondaryPhone", "email", "website", "addressLine1", "city",
         "state", "postalCode", "country", "description"})
    @@ [industry |-> INDUSTRY_CODE.SOFTWARE, revenue |-> 10000000, employees |-> 500]
\* ACCOUNT_TEST_SCENARIOS.HEALTHCARE_PROVIDER.data.account: no revenue
HEALTHCARE_PROVIDER ==
  Texts({"name", "phone", "secondaryPhone", "email", "website", "addressLine1", "city",
         "state", "postalCode", "country", "description"})
    @@ [industry |-> INDUSTRY_CODE.HEALTHCARE, employees |-> 200]
\* ACCOUNT_TEST_SCENARIOS.ACCOUNT_WITH_CONTACT.data.contact
ACCOUNT_WITH_CONTACT ==
  Texts({"firstname", "lastname", "email", "phone", "jobTitle"})
    @@ [preferredContactMethod |-> PREFERRED_CONTACT_METHOD.EMAIL]

\* the options objects the test passes: the scenarios, none, and options that
\* are 0 or ''
PayloadOptions(F) ==
  IF F.name = "AccountFactory"
    THEN {SIMPLE_ACCOUNT, ENTERPRISE_ACCOUNT, HEALTHCARE_PROVIDER, <<>>,
          [name |-> Text("name"), revenue |-> 0, employees |-> 0,
           email |-> <<>>, description |-> <<>>, parentAccountId |-> SomeId]}
    ELSE {ACCOUNT_WITH_CONTACT, <<>>,
          [firstname |-> <<>>, lastname |-> Text("lastname"), mobile |-> <<>>,
           jobTitle |-> Text("jobTitle"),
           preferredContactMethod |-> PREFERRED_CONTACT_METHOD.ANY]}

InitPayload == InitForm(<<TRUE, TRUE>>, 0, 0)

NextPayload ==
  \/ Tick
  \/ \E F \in Factories : \E o \in PayloadOptions(F) : FactoryCreate(F, o)
  \/ \E F \in Factories, n \in 0..MaxCount : \E o \in PayloadOptions(F) :
       FactoryCreateBulk(F, n, o)
  \/ CreateBulkPush
  \/ CreateBulkReturn

SpecPayload == InitPayload /\ [][NextPayload]_vars

\* no two names of a table share a code
Injective(t) == \A a, b \in DOMAIN t : a # b => t[a] # t[b]

\* C24: whatever calls of create and createBulk the test makes, INDUSTRY_CODE
\* and PREFERRED_CONTACT_METHOD stay as exported, no two of their names share
\* a code, and the options object of a call, a scenario of the fixtures
\* included, is after every step of the call what the caller passed.
C24_FactoriesLeaveInputsAlone ==
  /\ [](/\ tables = LoadedTables
        /\ Injective(tables.INDUSTRY_CODE)
        /\ Injective(tables.PREFERRED_CONTACT_METHOD))
  /\ [][/\ \A F \in Factories : \A o \in PayloadOptions(F) :
             (FactoryCreate(F, o) \/ \E n \in 0..MaxCount : FactoryCreateBulk(F, n, o))
               => call'.options = o
        /\ pc = "bulk" => call'.options = call.options]_vars

C24_Witness ==
  /\ Returned("createBulk")
  /\ call.factory.name = "AccountFactory"
  /\ call.options = ENTERPRISE_ACCOUNT
  /\ Len(result.val) = 2
  /\ result.val[2]["name"] = Text("name") \o <<" ", "2", " ">> \o Digits(ReadAt(2))
  /\ result.val[2]["industrycode"] = 21

\* the options create copies to a field of the payload, with that field
OptionFields(F) == F.copiedIfTruthy \cup F.copiedIfDefined
\* the options that are numbers
NumericOptions == {"industry", "revenue", "employees", "preferredContactMethod"}
\* the caller gave the option: a number, 0 included, or a text that is not ''
Supplied(options, k) ==
  k \in DOMAIN options /\ (k \in NumericOptions \/ options[k] # <<>>)
\* the name fields every payload has
NameFields(F) ==
  IF F.name = "AccountFactory" THEN {"name"} ELSE {"firstname", "lastname"}

\* C29: a payload of create holds its name fields, the binding keys, and for
\* every other option a field exactly when the option was supplied, under the
\* field name of the option and with the value supplied; a numeric option of 0
\* is there with 0, an option left out or given as '' has no key.
C29_PayloadHasExactlySuppliedFields ==
  Returned("create") =>
    LET F == call.factory
        data == result.val
    IN /\ NameFields(F) \subseteq DOMAIN data
       /\ DOMAIN data \subseteq
            NameFields(F) \cup {c[2] : c \in OptionFields(F)}
              \cup {b[2] : b \in BindingKeys(F)}
       /\ \A c \in OptionFields(F) :
            /\ c[2] \in DOMAIN data <=> Supplied(call.options, c[1])
            /\ c[2] \in DOMAIN data => data[c[2]] = call.options[c[1]]

C29_Witness ==
  /\ Returned("create")
  /\ call.factory.name = "AccountFactory"
  /\ "revenue" \in DOMAIN call.options /\ call.options["revenue"] = 0
  /\ result.val["revenue"] = 0
  /\ result.val["numberofemployees"] = 0
  /\ "email" \in DOMAIN call.options /\ call.options["email"] = <<>>
  /\ "emailaddress1" \notin DOMAIN result.val
  /\ "industrycode" \notin DOMAIN result.val


(***************************************************************************)
(* SpecAsync: calls the test issues on one page without awaiting them      *)
(***************************************************************************)
\* most calls in flight
MaxTasks == 2

\* a call in flight: its arguments, where it is (at the gate, about to run its
\* page.evaluate, settling, done), how its waitForXrmReady ended, whether its
\* page.evaluate has run, and its outcome
Task(op, name, value, flag, settings) ==
  [op |-> op, name |-> name, value |-> value, flag |-> flag, settings |-> settings,
   at |-> "gate", ready |-> "pending", accessed |-> FALSE, result |-> NoResult]

\* the calls the test issues: one operation of Attribute, three of Control, one
\* of SubGrid
AsyncCalls ==
  {Task("setValue", "createdon", SomeDate, FALSE, s) :
     s \in {NoSettings, ObjSettings(FALSE, 0, TRUE, TRUE)}}
    \cup {Task("Control.setDisabled", "header_createdon", NullV, b, NoSettings) :
            b \in BOOLEAN}
    \cup {Task("Control.setVisible", "header_createdon", NullV, FALSE, NoSettings),
          Task("Control.get", "header_createdon", NullV, FALSE, NoSettings),
          Task("SubGrid.getRecordCount", GridControl, NullV, FALSE, NoSettings)}

\* the test calls an operation and goes on without awaiting the promise
AsyncIssue(t) ==
  /\ pc = "idle"
  /\ Len(tasks) < MaxTasks
  /\ tasks' = Append(tasks, t)
  /\ UNCHANGED <<form, pc, call, events, result, clock, calls, env, store,
                 createdEntities, tables>>

\* GateFails whose rejection is swallowed: the call goes on to its page.evaluate
GateFailsSwallowed(i) ==
  /\ tasks[i].at = "gate"
  /\ tasks' = [tasks EXCEPT ![i].at = "page", ![i].ready = "failed"]
  /\ UNCHANGED <<form, pc, call, events, result, clock, calls, env, store,
                 createdEntities, tables>>

\* await this.xrmHelper.waitForXrmReady() of call i rejects: the call ends
\* with that error
GateFails(i) ==
  /\ tasks[i].at = "gate"
  /\ tasks' = [tasks EXCEPT ![i].at = "done", ![i].ready = "failed",
                            ![i].result = Err(tasks[i].op, tasks[i].name, "not ready")]
  /\ UNCHANGED <<form, pc, call, events, result, clock, calls, env, store,
                 createdEntities, tables>>

\* await this.xrmHelper.waitForXrmReady() of call i resolves
GatePasses(i) ==
  /\ tasks[i].at = "gate"
  /\ tasks' = [tasks EXCEPT ![i].at = "page", ![i].ready = "ok"]
  /\ UNCHANGED <<form, pc, call, events, result, clock, calls, env, store,
                 createdEntities, tables>>

\* EditableNow that takes the controls as they were when the form loaded
EditableWhenLoaded(t) ==
  Editable(t.name, SafeSettings(t.settings),
           [c \in FormControls |-> LoadedControl(c, <<TRUE, TRUE>>)])

\* `editable` as the page.evaluate of setValue computes it when it runs
EditableNow(t) == Editable(t.name, SafeSettings(t.settings), controls)

\* call i ends with outcome r, its page.evaluate having run
Evaluated(i, r) ==
  tasks' = [tasks EXCEPT ![i].at = "done", ![i].accessed = TRUE, ![i].result = r]

\* the page.evaluate of call i runs on the page, from its first line to its last
PageEvaluate(i) ==
  /\ tasks[i].at = "page"
  /\ LET t == tasks[i]
     IN CASE t.op = "setValue" ->
               IF t.name \notin FormFields
                 THEN /\ Evaluated(i, Err(t.op, t.name, "not found"))
                      /\ UNCHANGED <<form, events>>
               ELSE IF ~EditableNow(t)
                 THEN /\ Evaluated(i, Err(t.op, t.name, "uneditable"))
                      /\ UNCHANGED <<form, events>>
               ELSE /\ attrs' = [attrs EXCEPT
                                   ![t.name].value = FinalValue(t.name, BoundaryValue(t.value)),
                                   ![t.name].isDirty = TRUE]
                    /\ events' = events \o <<Event("setValue", i, 0),
                                             Event("fireOnChange", i, 0)>>
                    /\ tasks' = [tasks EXCEPT ![i].at = "settle", ![i].accessed = TRUE]
                    /\ UNCHANGED <<controls, rows, total, url>>
          [] t.op = "Control.setDisabled" ->
               IF t.name \notin FormControls
                 THEN /\ Evaluated(i, Err(t.op, t.name, "not found"))
                      /\ UNCHANGED <<form, events>>
               ELSE /\ controls' = [controls EXCEPT ![t.name].disabled = t.flag]
                    /\ Evaluated(i, Ok(t.op, t.name, <<>>))
                    /\ UNCHANGED <<attrs, rows, total, url, events>>
          [] t.op = "Control.setVisible" ->
               IF t.name \notin FormControls
                 THEN /\ Evaluated(i, Err(t.op, t.name, "not found"))
                      /\ UNCHANGED <<form, events>>
               ELSE /\ controls' = [controls EXCEPT ![t.name].visible = t.flag]
                    /\ Evaluated(i, Ok(t.op, t.name, <<>>))
                    /\ UNCHANGED <<attrs, rows, total, url, events>>
          [] t.op = "Control.get" ->
               /\ Evaluated(i, ControlGetResult(t.name))
               /\ UNCHANGED <<form, events>>
          [] OTHER ->
               /\ Evaluated(i, GetRecordCountResult(t.name))
               /\ UNCHANGED <<form, events>>
  /\ UNCHANGED <<pc, call, result, clock, calls, env, store, createdEntities, tables>>

\* page.waitForTimeout of call i of setValue elapses and the call returns
AsyncSettle(i) ==
  /\ tasks[i].at = "settle"
  /\ tasks' = [tasks EXCEPT ![i].at = "done",
                            ![i].result = Ok(tasks[i].op, tasks[i].name, <<>>)]
  /\ UNCHANGED <<form, pc, call, events, result, clock, calls, env, store,
                 createdEntities, tables>>

\* the createdon control sits in a hidden section: the field is editable
\* through its header control alone
InitAsync == InitForm(<<TRUE, FALSE>>, MaxRows, MaxRows)

NextAsync ==
  \/ \E t \in AsyncCalls : AsyncIssue(t)
  \/ \E i \in 1..Len(tasks) : GatePasses(i)
  \/ \E i \in 1..Len(tasks) : GateFails(i)
  \/ \E i \in 1..Len(tasks) : PageEvaluate(i)
  \/ \E i \in 1..Len(tasks) : AsyncSettle(i)

SpecAsync == InitAsync /\ [][NextAsync]_vars

\* C22: a call whose page.evaluate has run is a call whose waitForXrmReady had
\* resolved; a call whose waitForXrmReady rejected has ended with that error
\* and its page.evaluate has not run; and the form changes only in the step in
\* which the page.evaluate of a call that passed the gate runs.
C22_GateBeforeFormAccess ==
  /\ [](\A i \in 1..Len(tasks) :
          /\ tasks[i].accessed => tasks[i].ready = "ok"
          /\ tasks[i].ready = "pending" => tasks[i].result = NoResult
          /\ tasks[i].ready = "failed" =>
               /\ ~tasks[i].accessed
               /\ tasks[i].at = "done"
               /\ tasks[i].result.kind = "error" /\ tasks[i].result.err = "not ready")
  /\ [][form' # form =>
          \E i \in 1..Len(tasks) :
            /\ tasks[i].ready = "ok" /\ ~tasks[i].accessed
            /\ tasks'[i].accessed]_vars

C22_Witness ==
  /\ Len(tasks) = 2
  /\ tasks[1].op = "Control.setDisabled" /\ tasks[1].flag
  /\ tasks[1].ready = "failed" /\ tasks[1].at = "done"
  /\ ~controls["header_createdon"].disabled
  /\ tasks[2].op = "setValue" /\ tasks[2].ready = "ok" /\ tasks[2].at = "done"
  /\ tasks[2].result.kind = "ok"
  /\ attrs["createdon"].value = SomeDate

\* the caller of call i asked for forceValue
TaskForced(i) ==
  tasks[i].settings.t = "obj" /\ tasks[i].settings.hasFv /\ tasks[i].settings.fv

\* C25: in the one step in which the page.evaluate of a setValue call runs, no
\* control changes, and the value is written and the notification fired in
\* that step exactly when forceValue is set or some control of the field is
\* usable in the state the step starts from; otherwise nothing is written. No
\* other step writes a value, however the calls in flight interleave.
C25_CheckAndWriteAreOneStep ==
  [][/\ \A i \in 1..Len(tasks) :
          (tasks[i].op = "setValue" /\ ~tasks[i].accessed /\ tasks'[i].accessed) =>
            /\ controls' = controls
            /\ tasks'[i].at = "settle" <=> (TaskForced(i) \/ HasUsable(tasks[i].name, 2))
            /\ tasks'[i].at = "settle" =>
                 /\ attrs' = [attrs EXCEPT
                                ![tasks[i].name].value =
                                   FinalValue(tasks[i].name, BoundaryValue(tasks[i].value)),
                                ![tasks[i].name].isDirty = TRUE]
                 /\ events' = events \o <<Event("setValue", i, 0),
                                          Event("fireOnChange", i, 0)>>
            /\ tasks'[i].at # "settle" =>
                 /\ attrs' = attrs /\ events' = events
                 /\ tasks'[i].result.err = "uneditable"
     /\ attrs' # attrs =>
          \E i \in 1..Len(tasks) :
            tasks[i].op = "setValue" /\ ~tasks[i].accessed /\ tasks'[i].accessed]_vars

C25_Witness ==
  /\ Len(tasks) = 2
  /\ tasks[1].op = "setValue" /\ ~TaskForced(1)
  /\ tasks[1].at = "done"
  /\ tasks[1].result.kind = "error" /\ tasks[1].result.err = "uneditable"
  /\ tasks[2].op = "Control.setDisabled" /\ tasks[2].flag /\ tasks[2].at = "done"
  /\ controls["header_createdon"].disabled
  /\ attrs["createdon"].value = LoadedAttrs["createdon"].value

====
